---- MODULE Spec2Model ----
(***************************************************************************)
(* Lore Cloud server (src/src/lore/server): the API-key store with its     *)
(* in-process cache, key management, bootstrap, the lesson engine, the     *)
(* rate limiter and the error envelope.                                    *)
(*                                                                         *)
(* The database is PostgreSQL at its default isolation level (READ         *)
(* COMMITTED): a statement sees the rows committed before it starts, a     *)
(* single statement is atomic, SELECT ... FOR UPDATE locks the rows it     *)
(* returns until the transaction ends, and the writes of a transaction     *)
(* become visible at its commit.  A request handler is a coroutine: it can *)
(* be suspended at every await, so each action below is one run of a       *)
(* handler between two awaits on the database.                             *)
(***************************************************************************)
EXTENDS Integers, Sequences, FiniteSets, Bags, TLC

(* ---------------------------------------------------------------- bounds *)
MaxReq == 2
MaxKeys == 2
MaxOrgs == 2
MaxTime == 1
TickStep == 60
MaxCache == 2
MaxLessons == 2
MaxVotes == 2
MaxAudit == 2
MaxRules == 1
MaxItems == 1
MaxAdmit == 1
MaxWindow == 2
MaxClock == 2

(* ------------------------------------------------------ program constants *)
CACHE_TTL_SECONDS == 60
\* auth.CACHE_MAX_SIZE is 10 000; the model scales it down to MaxCache so that
\* the eviction branch of _resolve_api_key is reached.
CACHE_MAX_SIZE == MaxCache
LAST_USED_DEBOUNCE_SECONDS == 60

ReqIds == 1..MaxReq
KeyIds == 1..MaxKeys
OrgIds == 1..MaxOrgs
Null == -1
NoProject == "none"
Projects == {"backend", "frontend"}
\* The project a new key is restricted to, as create_key's body names it.
KeyProjects == {NoProject}
Times == {i * TickStep : i \in 0..MaxTime}
LessonIds == 1..MaxLessons
AuditIds == 1..MaxAudit
RuleIds == 1..MaxRules
Roles == {"reader", "writer", "admin"}
AgentIds == {"agent-1"}

(* ----------------------------------------------------------------- state *)
VARIABLES
    orgs,                \* table orgs: the set of org ids
    api_keys,            \* table api_keys: key id -> row (the key's hash stands for its id)
    _key_cache,          \* auth._key_cache: key hash -> [row, cached_at]
    _last_used_updates,  \* auth._last_used_updates: key id -> time of the last fire
    last_used_tasks,     \* the _do_update tasks created and not yet run
    req,                 \* the requests in flight, one per slot
    resp,                \* the response sent last
    now,                 \* the clock (time.monotonic and the database's now())
    returned204,         \* keys whose cached row a DELETE /v1/keys/{id} removed
                         \* before it answered 204
    lessons,             \* table lessons: lesson id -> row
    sharing_config,      \* table sharing_config: org id -> row
    agent_sharing_config,\* table agent_sharing_config: <<org id, agent id>> -> row
    deny_list_rules,     \* table deny_list_rules: rule id -> row
    sharing_audit,       \* table sharing_audit: event id -> row
    out,                 \* the response of the data endpoint called last
    workload,            \* the group of endpoints the clients of a run call
    patches,             \* the bag of PATCH /v1/lessons/{id} requests in flight
    vote_ledger,         \* per lesson and counter: its value when it was last
                         \* written as a whole, and the "+1" patches answered 200
                         \* since
    settings,            \* config.settings: auth_mode, oidc_issuer, metrics_enabled
    _rate_limiter,       \* middleware._rate_limiter: max_requests, window_seconds
                         \* and _requests (key -> timestamps)
    admitted,            \* per key, the times of the requests is_allowed admitted
    rate_out,            \* the answer of the last call of is_allowed
    http_req,            \* the HTTP request being served and the stage it is at
    http_resp,           \* the response to it
    search_req,          \* the search request being answered
    search_resp,         \* the lessons and scores of its response
    resolve_out,         \* the last run of _resolve_api_key: the key, the age
                         \* of its cache entry, whether the database was
                         \* read, and what the eviction deleted
    validator,           \* an OidcValidator: _last_force_fetch, the key set
                         \* its client has cached, and the provider's key set
    jwks_out,            \* the last run of _get_signing_key, and the times
                         \* of the forced refreshes so far
    rate_calls,          \* key -> the answer of the key's last call of
                         \* is_allowed, and whether it had waited
    exported,            \* the items of the last export a client has kept
    importing,           \* the calls of import_lessons that have read the
                         \* clock and have not yet run their transaction
    purging,             \* the calls of purge_sharing whose transaction has
                         \* committed and whose audit event is not yet written
    last_purge,          \* org id -> the key_id of the credential whose purge
                         \* committed last (0: none)
    jwt_out,             \* the last request that presented a JWT: the token,
                         \* what validate returned and what was answered
    retry,               \* client.py: the call of save or recall in progress
                         \* with its attempts and sleeps
    batching,            \* client.py: a LoreClient in batch mode, its buffer,
                         \* lock and tasks, and the payloads handed to _do_save
    voters,              \* lore.py: the callers of upvote and downvote, each
                         \* with the lesson it has read
    agent_put            \* the last PUT /v1/sharing/agents/{agent_id}: its
                         \* body and the agent's config before it

keyVars == <<orgs, api_keys, _key_cache, _last_used_updates, last_used_tasks,
             req, resp, now, returned204>>
\* What the resolver and the bootstrap endpoint keep besides the tables.
procVars == <<orgs, _key_cache, _last_used_updates, last_used_tasks, req, resp,
              returned204>>
dataVars == <<lessons, sharing_config, agent_sharing_config, deny_list_rules,
              sharing_audit, out>>
searchVars == <<search_req, search_resp>>
oidcVars == <<validator, jwks_out>>
\* Variables of the runs that are split into steps.
clientVars == <<retry, batching, voters>>
moreVars == <<importing, purging, last_purge, jwt_out, clientVars, agent_put>>
auxVars == <<searchVars, resolve_out, oidcVars, rate_calls, exported, moreVars>>
envVars == <<workload, patches, vote_ledger, auxVars>>
httpVars == <<settings, _rate_limiter, admitted, rate_out, http_req, http_resp>>
vars == <<keyVars, dataVars, envVars, httpVars>>

(* ------------------------------------------------------------ auth.py *)
NoCtx == [org_id |-> 0, project |-> NoProject, is_root |-> FALSE, key_id |-> 0,
          role |-> "none"]
\* The columns _resolve_api_key selects (key_hash is the id), for no row.
NoRow == [id |-> 0, org_id |-> 0, project |-> NoProject, is_root |-> FALSE,
          revoked_at |-> Null, role |-> ""]

\* SELECT id, org_id, project, is_root, revoked_at, key_hash, role
SelectedRow(row) ==
    [id |-> row.id, org_id |-> row.org_id, project |-> row.project,
     is_root |-> row.is_root, revoked_at |-> row.revoked_at, role |-> row.role]

\* A row as INSERTed by create_key and org_init: revoked_at and last_used_at are
\* NULL; the role column takes its default 'admin' (migration 005).
NewKeyRow(id, org, project, is_root) ==
    [id |-> id, org_id |-> org, project |-> project, is_root |-> is_root,
     revoked_at |-> Null, role |-> "admin", last_used_at |-> Null]

IdleReq == [pc |-> "idle", op |-> "none", token |-> 0, target |-> 0,
            is_root |-> FALSE, project |-> NoProject, row |-> NoRow,
            ctx |-> NoCtx, after204 |-> FALSE]

\* The response to no request.
NoResp == [op |-> "none", token |-> 0, status |-> 0, detail |-> "",
           after204 |-> FALSE]

_map_api_key_role(is_root, db_role) ==
    IF db_role # "" THEN db_role
    ELSE IF is_root THEN "admin" ELSE "writer"

\* _validate_row: the AuthContext of a row, or the error key_revoked.
_validate_row(row) ==
    IF row.revoked_at # Null
    THEN [ok |-> FALSE, error |-> "key_revoked", ctx |-> NoCtx]
    ELSE [ok |-> TRUE, error |-> "",
          ctx |-> [org_id |-> row.org_id, project |-> row.project,
                   is_root |-> row.is_root, key_id |-> row.id,
                   role |-> _map_api_key_role(row.is_root, row.role)]]

\* A cache entry counts as fresh up to and including the TTL.
CacheFresh_inclusive(cache, h, t) ==
    /\ h \in DOMAIN cache
    /\ t - cache[h].cached_at <= CACHE_TTL_SECONDS

\* The cache answers for hash h at time t: the entry exists and is younger
\* than the TTL.
CacheFresh(cache, h, t) ==
    /\ h \in DOMAIN cache
    /\ t - cache[h].cached_at < CACHE_TTL_SECONDS

\* An eviction that deletes any half of the entries, whatever their age.
EvictChoices_any_half(cache) ==
    IF Cardinality(DOMAIN cache) >= CACHE_MAX_SIZE
    THEN {E \in SUBSET (DOMAIN cache) :
            Cardinality(E) = Cardinality(DOMAIN cache) \div 2}
    ELSE {{}}

\* The sets of entries the eviction may delete: the len // 2 first entries in
\* timestamp order (entries with equal timestamps are in dict order, which
\* the model leaves open).
EvictChoices(cache) ==
    IF Cardinality(DOMAIN cache) >= CACHE_MAX_SIZE
    THEN {E \in SUBSET (DOMAIN cache) :
            /\ Cardinality(E) = Cardinality(DOMAIN cache) \div 2
            /\ \A e \in E : \A s \in (DOMAIN cache) \ E :
                  cache[e].cached_at <= cache[s].cached_at}
    ELSE {{}}

\* _key_cache[key_hash] = (row_dict, time.monotonic()) after evicting E.
CachePut(cache, E, h, row, t) ==
    [k \in ((DOMAIN cache) \ E) \cup {h} |->
        IF k = h THEN [row |-> row, cached_at |-> t] ELSE cache[k]]

\* _key_cache.pop(target_hash, None)
CachePop(cache, h) == [k \in (DOMAIN cache) \ {h} |-> cache[k]]

\* _maybe_update_last_used fires iff the last fire is at least the debounce
\* interval ago (a key never fired counts as fired at 0.0).
LastUsedDue(updates, key_id, t) ==
    LET last == IF key_id \in DOMAIN updates THEN updates[key_id] ELSE 0
    IN  ~(t - last < LAST_USED_DEBOUNCE_SECONDS)

\* The response to the request in slot r.
Response(r, status, detail) ==
    [op |-> req[r].op, token |-> req[r].token, status |-> status,
     detail |-> detail, after204 |-> req[r].after204]

\* The request in slot r is answered and the slot is free again.
Reply(r, status, detail) ==
    /\ resp' = Response(r, status, detail)
    /\ req' = [req EXCEPT ![r] = IdleReq]

\* The request in slot r goes on at pc after the next await.
Goto(r, pc) ==
    /\ req' = [req EXCEPT ![r].pc = pc]
    /\ UNCHANGED resp

\* The credential of the request in slot r is resolved to ctx.
Authenticated(r, ctx) ==
    /\ req' = [req EXCEPT ![r].pc = "handler", ![r].ctx = ctx]
    /\ UNCHANGED resp

(* ------------------------------------------------- the request pipeline *)
Ops == {"get", "list_keys", "create_key", "revoke_key", "org_init"}

MinOf(S) == CHOOSE x \in S : \A y \in S : x <= y

\* A request arrives and takes the first free slot r.  org_init takes no credential; every other
\* endpoint resolves the bearer token first (get_auth_context).
Start(r) ==
    /\ req[r].pc = "idle"
    /\ \A q \in ReqIds : q < r => req[q].pc # "idle"
    /\ \E op \in Ops, token \in KeyIds, target \in KeyIds,
          is_root \in BOOLEAN, project \in KeyProjects :
        /\ op # "revoke_key" => target = 1
        /\ op # "create_key" => (~is_root /\ project = NoProject)
        /\ op = "org_init" => token = 1
        /\ req' = [req EXCEPT ![r] =
                     [IdleReq EXCEPT !.pc = IF op = "org_init" THEN "oi_check"
                                           ELSE "resolve",
                                     !.op = op, !.token = token,
                                     !.target = target, !.is_root = is_root,
                                     !.project = project,
                                     !.after204 = (op # "org_init" /\ token \in returned204)]]
    /\ UNCHANGED <<orgs, api_keys, _key_cache, _last_used_updates,
                   last_used_tasks, resp, now, returned204>>

\* _resolve_api_key, up to its first await: the cache check.
ResolveCheck(r) ==
    /\ req[r].pc = "resolve"
    /\ LET h == req[r].token IN
       IF CacheFresh(_key_cache, h, now)
       THEN LET v == _validate_row(_key_cache[h].row) IN
            IF v.ok THEN Authenticated(r, v.ctx) ELSE Reply(r, 401, v.error)
       ELSE Goto(r, "db_lookup")
    /\ UNCHANGED <<orgs, api_keys, _key_cache, _last_used_updates,
                   last_used_tasks, now, returned204>>

\* _resolve_api_key: SELECT ... FROM api_keys WHERE key_hash = $1.
ResolveLookup(r) ==
    /\ req[r].pc = "db_lookup"
    /\ LET h == req[r].token IN
       IF h \in DOMAIN api_keys
       THEN /\ req' = [req EXCEPT ![r].pc = "cache_write",
                                  ![r].row = SelectedRow(api_keys[h])]
            /\ UNCHANGED resp
       ELSE Reply(r, 401, "invalid_api_key")
    /\ UNCHANGED <<orgs, api_keys, _key_cache, _last_used_updates,
                   last_used_tasks, now, returned204>>

\* _resolve_api_key after the lookup: evict, cache the row, validate it and
\* schedule the debounced last_used_at update.
ResolveCache(r) ==
    /\ req[r].pc = "cache_write"
    /\ LET h == req[r].token
           row == req[r].row
           v == _validate_row(row)
           due == v.ok /\ LastUsedDue(_last_used_updates, row.id, now)
       IN
       /\ \E E \in EvictChoices(_key_cache) :
            _key_cache' = CachePut(_key_cache, E, h, row, now)
       /\ IF v.ok THEN Authenticated(r, v.ctx) ELSE Reply(r, 401, v.error)
       /\ _last_used_updates' =
            IF due
            THEN [k \in (DOMAIN _last_used_updates) \cup {row.id} |->
                    IF k = row.id THEN now ELSE _last_used_updates[k]]
            ELSE _last_used_updates
       /\ last_used_tasks' = IF due THEN last_used_tasks \cup {row.id}
                             ELSE last_used_tasks
    /\ UNCHANGED <<orgs, api_keys, now, returned204>>

\* _do_update: UPDATE api_keys SET last_used_at = now() WHERE id = $1.
DoUpdate(k) ==
    /\ k \in last_used_tasks
    /\ last_used_tasks' = last_used_tasks \ {k}
    /\ api_keys' = [api_keys EXCEPT ![k].last_used_at = now]
    /\ UNCHANGED <<orgs, _key_cache, _last_used_updates, req, resp, now,
                   returned204>>

(* -------------------------------------------------------- routes/keys.py *)
\* _require_root
_require_root(auth) == auth.is_root

\* A handler that only reads: any authenticated endpoint ("get"), and
\* list_keys, which needs a root key.
ReadHandler(r) ==
    /\ req[r].pc = "handler"
    /\ req[r].op \in {"get", "list_keys"}
    /\ IF req[r].op = "list_keys" /\ ~_require_root(req[r].ctx)
       THEN Reply(r, 403, "Root key required")
       ELSE Reply(r, 200, "")
    /\ UNCHANGED <<orgs, api_keys, _key_cache, _last_used_updates,
                   last_used_tasks, now, returned204>>

\* create_key: INSERT INTO api_keys (id, org_id, ..., project, is_root).
CreateKey(r) ==
    /\ req[r].pc = "handler"
    /\ req[r].op = "create_key"
    /\ IF ~_require_root(req[r].ctx)
       THEN /\ Reply(r, 403, "Root key required")
            /\ UNCHANGED api_keys
       ELSE /\ KeyIds \ DOMAIN api_keys # {}
            /\ LET key_id == MinOf(KeyIds \ DOMAIN api_keys) IN
               api_keys' = [k \in (DOMAIN api_keys) \cup {key_id} |->
                   IF k = key_id
                   THEN NewKeyRow(key_id, req[r].ctx.org_id, req[r].project,
                                  req[r].is_root)
                   ELSE api_keys[k]]
            /\ Reply(r, 201, "")
    /\ UNCHANGED <<orgs, _key_cache, _last_used_updates, last_used_tasks, now,
                   returned204>>

\* A transaction of revoke_key holds the row lock on key k: it has run its
\* SELECT ... FOR UPDATE and has not yet ended.
Locked(k) ==
    \E r \in ReqIds : /\ req[r].pc \in {"rv_count", "rv_update"}
                      /\ req[r].target = k

\* The rows "WHERE org_id = $1 AND is_root = TRUE AND revoked_at IS NULL".
ActiveRoots(keys, org) ==
    {k \in DOMAIN keys : /\ keys[k].org_id = org
                         /\ keys[k].is_root
                         /\ keys[k].revoked_at = Null}

\* revoke_key: _require_root, then SELECT ... WHERE id = $1 AND org_id = $2
\* FOR UPDATE, which waits while another transaction holds the row.
RevokeSelect(r) ==
    /\ req[r].pc = "handler"
    /\ req[r].op = "revoke_key"
    /\ LET k == req[r].target
           found == k \in DOMAIN api_keys /\ api_keys[k].org_id = req[r].ctx.org_id
       IN
       IF ~_require_root(req[r].ctx)
       THEN Reply(r, 403, "Root key required")
       ELSE IF ~found
       THEN Reply(r, 404, "Key not found")
       ELSE /\ ~Locked(k)
            /\ IF api_keys[k].revoked_at # Null
               THEN Reply(r, 400, "Key already revoked")
               ELSE /\ req' = [req EXCEPT ![r].row = SelectedRow(api_keys[k]),
                                          ![r].pc = IF api_keys[k].is_root
                                                    THEN "rv_count"
                                                    ELSE "rv_update"]
                    /\ UNCHANGED resp
    /\ UNCHANGED <<orgs, api_keys, _key_cache, _last_used_updates,
                   last_used_tasks, now, returned204>>

\* The last-root check on the count of the committed active root keys.
LastRootRefused(keys, org) == Cardinality(ActiveRoots(keys, org)) <= 1

\* revoke_key: SELECT COUNT(*) ... of the active root keys of the org.
RevokeCount(r) ==
    /\ req[r].pc = "rv_count"
    /\ IF LastRootRefused(api_keys, req[r].ctx.org_id)
       THEN Reply(r, 400, "Cannot revoke the last root key")
       ELSE Goto(r, "rv_update")
    /\ UNCHANGED <<orgs, api_keys, _key_cache, _last_used_updates,
                   last_used_tasks, now, returned204>>

\* revoke_key: UPDATE api_keys SET revoked_at = $1 WHERE id = $2, and the
\* commit that ends the transaction.
RevokeUpdate(r) ==
    /\ req[r].pc = "rv_update"
    /\ api_keys' = [api_keys EXCEPT ![req[r].target].revoked_at = now]
    /\ Goto(r, "rv_invalidate")
    /\ UNCHANGED <<orgs, _key_cache, _last_used_updates, last_used_tasks, now,
                   returned204>>

\* revoke_key after the transaction: _key_cache.pop(target_hash, None), 204.
RevokeInvalidate(r) ==
    /\ req[r].pc = "rv_invalidate"
    /\ _key_cache' = CachePop(_key_cache, req[r].row.id)
    /\ Reply(r, 204, "")
    /\ returned204' = IF req[r].row.id \in DOMAIN _key_cache
                      THEN returned204 \cup {req[r].target}
                      ELSE returned204
    /\ UNCHANGED <<orgs, api_keys, _last_used_updates, last_used_tasks, now>>

(* ------------------------------------------------------------- app.py *)
\* org_init: "SELECT id FROM orgs LIMIT 1" returns a row.
OrgExists(o) == o # {}

\* org_init: the check, on the orgs committed so far.
OrgInitCheck(r) ==
    /\ req[r].pc = "oi_check"
    /\ IF OrgExists(orgs)
       THEN Reply(r, 409, "Org already exists")
       ELSE Goto(r, "oi_insert")
    /\ UNCHANGED <<orgs, api_keys, _key_cache, _last_used_updates,
                   last_used_tasks, now, returned204>>

\* org_init: INSERT INTO orgs, INSERT INTO api_keys (..., is_root TRUE), commit.
OrgInitInsert(r) ==
    /\ req[r].pc = "oi_insert"
    /\ OrgIds \ orgs # {}
    /\ KeyIds \ DOMAIN api_keys # {}
    /\ LET org_id == MinOf(OrgIds \ orgs)
           key_id == MinOf(KeyIds \ DOMAIN api_keys)
       IN
       /\ orgs' = orgs \cup {org_id}
       /\ api_keys' = [k \in (DOMAIN api_keys) \cup {key_id} |->
             IF k = key_id THEN NewKeyRow(key_id, org_id, NoProject, TRUE)
             ELSE api_keys[k]]
    /\ Reply(r, 201, "")
    /\ UNCHANGED <<_key_cache, _last_used_updates, last_used_tasks, now,
                   returned204>>

(* ------------------------------------------------------ routes/lessons.py *)
\* The response to no request.
NoOut == [op |-> "none", auth |-> NoCtx, id |-> 0, status |-> 0, detail |-> "",
          count |-> 0]

\* A vote field of LessonUpdateRequest (Optional[Union[str, int]]): absent,
\* the string "+1" or "-1", or an integer.
NoVote == [kind |-> "none", s |-> "", n |-> 0]
StrVote(s) == [kind |-> "str", s |-> s, n |-> 0]
IntVote(n) == [kind |-> "int", s |-> "", n |-> n]

\* require_role(*roles): the dependency passes iff auth.role is one of them.
require_role(auth, roles) == auth.role \in roles

\* A scope without the org: "project = $2" at most.
_scope_filter_any_org(auth, row) ==
    auth.project # NoProject => row.project = auth.project

\* A scope without the project: "org_id = $1" always.
_scope_filter_org_only(auth, row) ==
    row.org_id = auth.org_id

\* _scope_filter: "org_id = $1 AND project = $2" for a credential with a
\* project, "org_id = $1" for one without.
_scope_filter(auth, row) ==
    /\ row.org_id = auth.org_id
    /\ auth.project # NoProject => row.project = auth.project

\* The rows "WHERE id = $n AND {scope_sql}" selects.
InScope(tbl, auth, id) == id \in DOMAIN tbl /\ _scope_filter(auth, tbl[id])

\* Rows as a response carries them, each with its id.
RowsOf(tbl, ids) == {[id |-> i, row |-> tbl[i]] : i \in ids}

Insert(tbl, id, row) ==
    [i \in (DOMAIN tbl) \cup {id} |-> IF i = id THEN row ELSE tbl[i]]

Remove(tbl, ids) == [i \in (DOMAIN tbl) \ ids |-> tbl[i]]

\* What a lesson handler returns: the table after it, and its answer.
LessonResult(tbl, status, detail, rows, count) ==
    [lessons |-> tbl, status |-> status, detail |-> detail, rows |-> rows,
     count |-> count]

\* create_lesson: a credential's project overrides the body's; the row is
\* inserted under a new id with both counters 0 (reputation_score takes the
\* column's default).
create_lesson(tbl, auth, body, lesson_id, t) ==
    IF ~require_role(auth, {"writer", "admin"})
    THEN LessonResult(tbl, 403, "insufficient_role", {}, 0)
    ELSE LET project == IF auth.project # NoProject THEN auth.project
                        ELSE body.project
             row == [org_id |-> auth.org_id, project |-> project,
                     confidence |-> body.confidence,
                     embedding |-> body.embedding,
                     created_at |-> t, updated_at |-> t,
                     upvotes |-> 0, downvotes |-> 0, reputation_score |-> 0]
             new == Insert(tbl, lesson_id, row)
         IN  LessonResult(new, 201, "", RowsOf(new, {lesson_id}), 0)

\* search_lessons: the rows of the WHERE clause (the credential's project
\* overrides the body's; the embedding must exist).  The ranking, LIMIT and
\* min_confidence only drop rows from them.
search_lessons(tbl, auth, body_project) ==
    LET project == IF auth.project # NoProject THEN auth.project
                   ELSE body_project
        found == {i \in DOMAIN tbl :
                    /\ tbl[i].org_id = auth.org_id
                    /\ project # NoProject => tbl[i].project = project
                    /\ tbl[i].embedding # Null}
    IN  LessonResult(tbl, 200, "", RowsOf(tbl, found), 0)

\* get_lesson
get_lesson(tbl, auth, lesson_id) ==
    IF ~InScope(tbl, auth, lesson_id)
    THEN LessonResult(tbl, 404, "Lesson not found", {}, 0)
    ELSE LessonResult(tbl, 200, "", RowsOf(tbl, {lesson_id}), 0)

\* A vote string assigned as a number instead of added.
VoteSet_assigned(current, val) ==
    IF val.kind = "none" THEN current
    ELSE IF val.kind = "str"
         THEN (IF val.s = "+1" THEN 1 ELSE 0 - 1)
         ELSE val.n

\* update_lesson, one vote field: a string is an increment applied in the
\* UPDATE itself (column = column + delta), an integer is assigned.
VoteSet(current, val) ==
    IF val.kind = "none" THEN current
    ELSE IF val.kind = "str"
         THEN current + (IF val.s = "+1" THEN 1 ELSE -1)
         ELSE val.n

\* update_lesson: one UPDATE ... WHERE id AND scope RETURNING.  The body's
\* confidence stands for the columns that are assigned as they come
\* (confidence, tags, meta).
update_lesson(tbl, auth, lesson_id, body, t) ==
    IF ~require_role(auth, {"writer", "admin"})
    THEN LessonResult(tbl, 403, "insufficient_role", {}, 0)
    ELSE IF /\ body.confidence = Null
            /\ body.upvotes.kind = "none"
            /\ body.downvotes.kind = "none"
    THEN LessonResult(tbl, 422, "No fields to update", {}, 0)
    ELSE IF ~InScope(tbl, auth, lesson_id)
    THEN LessonResult(tbl, 404, "Lesson not found", {}, 0)
    ELSE LET old == tbl[lesson_id]
             row == [old EXCEPT
                       !.confidence = IF body.confidence # Null
                                      THEN body.confidence ELSE @,
                       !.upvotes = VoteSet(@, body.upvotes),
                       !.downvotes = VoteSet(@, body.downvotes),
                       !.updated_at = t]
             new == [tbl EXCEPT ![lesson_id] = row]
         IN  LessonResult(new, 200, "", RowsOf(new, {lesson_id}), 0)

\* delete_lesson
delete_lesson(tbl, auth, lesson_id) ==
    IF ~require_role(auth, {"writer", "admin"})
    THEN LessonResult(tbl, 403, "insufficient_role", {}, 0)
    ELSE IF ~InScope(tbl, auth, lesson_id)
    THEN LessonResult(tbl, 404, "Lesson not found", {}, 0)
    ELSE LessonResult(Remove(tbl, {lesson_id}), 204, "", {}, 0)

\* list_lessons: the credential's project, else the query's, narrows the
\* rows of the org (the text, category and reputation filters and the
\* pagination only drop rows from them).
list_lessons(tbl, auth, project) ==
    LET p == IF auth.project # NoProject THEN auth.project ELSE project
        found == {i \in DOMAIN tbl :
                    /\ tbl[i].org_id = auth.org_id
                    /\ p # NoProject => tbl[i].project = p}
    IN  LessonResult(tbl, 200, "", RowsOf(tbl, found), Cardinality(found))

\* export_lessons
export_lessons(tbl, auth) ==
    LET found == {i \in DOMAIN tbl : _scope_filter(auth, tbl[i])}
    IN  LessonResult(tbl, 200, "", RowsOf(tbl, found), 0)

\* import_lessons, one item: INSERT ... ON CONFLICT (id) DO UPDATE SET (all
\* but id, org_id, created_at and reputation_score)
\* WHERE lessons.org_id = EXCLUDED.org_id.
ImportItem(tbl, auth, item, t) ==
    LET lesson_id == IF item.id # Null THEN item.id
                     ELSE MinOf(LessonIds \ DOMAIN tbl)
        project == IF auth.project # NoProject THEN auth.project
                   ELSE item.project
        row == [org_id |-> auth.org_id, project |-> project,
                confidence |-> item.confidence, embedding |-> item.embedding,
                created_at |-> t, updated_at |-> t,
                upvotes |-> item.upvotes, downvotes |-> item.downvotes,
                reputation_score |-> 0]
    IN  IF lesson_id \notin DOMAIN tbl THEN Insert(tbl, lesson_id, row)
        ELSE IF tbl[lesson_id].org_id = auth.org_id
        THEN [tbl EXCEPT ![lesson_id] =
                [row EXCEPT !.created_at = tbl[lesson_id].created_at,
                            !.reputation_score = tbl[lesson_id].reputation_score]]
        ELSE tbl

RECURSIVE ImportAll(_, _, _, _)
ImportAll(tbl, auth, items, t) ==
    IF items = <<>> THEN tbl
    ELSE ImportAll(ImportItem(tbl, auth, Head(items), t), auth, Tail(items), t)

\* import_lessons: every item is upserted in one transaction and counted.
import_lessons(tbl, auth, items, t) ==
    IF ~require_role(auth, {"writer", "admin"})
    THEN LessonResult(tbl, 403, "insufficient_role", {}, 0)
    ELSE LessonResult(ImportAll(tbl, auth, items, t), 200, "", {}, Len(items))

\* The ids an import of items takes from the id generator.
NewIdsNeeded(items) ==
    Cardinality({i \in DOMAIN items : items[i].id = Null})

(* ------------------------------------------------------ routes/sharing.py *)
\* What a sharing handler returns: the table it writes after it, and its
\* answer.
TableResult(tbl, status, detail, rows, count) ==
    [tbl |-> tbl, status |-> status, detail |-> detail, rows |-> rows,
     count |-> count]

\* The rows of a table that carry org_id org, and the others.
Own(tbl, org) == [i \in {j \in DOMAIN tbl : tbl[j].org_id = org} |-> tbl[i]]
Others(tbl, org) == [i \in {j \in DOMAIN tbl : tbl[j].org_id # org} |-> tbl[i]]

\* "INSERT INTO sharing_audit (id, org_id, event_type, lesson_id,
\* initiated_by)" under a new id (_record_audit, and rate_lesson's own INSERT).
AuditInsert(audit, org_id, event_type, initiated_by, lesson_id) ==
    Insert(audit, MinOf(AuditIds \ DOMAIN audit),
           [org_id |-> org_id, event_type |-> event_type,
            lesson_id |-> lesson_id, initiated_by |-> initiated_by])

\* get_sharing_config: the org's row, or the defaults after inserting a row
\* of defaults.
get_sharing_config(cfg, auth) ==
    LET new == IF auth.org_id \in DOMAIN cfg THEN cfg
               ELSE Insert(cfg, auth.org_id,
                           [org_id |-> auth.org_id, enabled |-> FALSE])
    IN  TableResult(new, 200, "", RowsOf(new, {auth.org_id}), 0)

\* update_sharing_config: the row is created if missing, then the fields the
\* body names are assigned (enabled stands for the four of them).
update_sharing_config(cfg, auth, body) ==
    LET had == IF auth.org_id \in DOMAIN cfg THEN cfg
               ELSE Insert(cfg, auth.org_id,
                           [org_id |-> auth.org_id, enabled |-> FALSE])
        new == IF body.enabled = "none" THEN had
               ELSE [had EXCEPT ![auth.org_id].enabled = (body.enabled = "true")]
    IN  TableResult(new, 200, "", RowsOf(new, {auth.org_id}), 0)

\* list_agent_configs
list_agent_configs(agents, auth) ==
    TableResult(agents, 200, "",
                RowsOf(agents, {k \in DOMAIN agents : agents[k].org_id = auth.org_id}),
                0)

\* upsert_agent_config: a field the body omits is replaced by its default
\* (False, "[]") before the upsert, so COALESCE never sees NULL.
upsert_agent_config(agents, auth, agent_id, body) ==
    LET enabled == IF body.enabled # "none" THEN body.enabled = "true" ELSE FALSE
        categories == IF body.categories # "none" THEN body.categories ELSE "[]"
        k == <<auth.org_id, agent_id>>
        new == Insert(agents, k,
                      [org_id |-> auth.org_id, agent_id |-> agent_id,
                       enabled |-> enabled, categories |-> categories])
    IN  TableResult(new, 200, "", RowsOf(new, {k}), 0)

\* list_deny_rules
list_deny_rules(rules, auth) ==
    TableResult(rules, 200, "",
                RowsOf(rules, {i \in DOMAIN rules : rules[i].org_id = auth.org_id}),
                0)

\* create_deny_rule
create_deny_rule(rules, auth, rule_id, pattern) ==
    LET new == Insert(rules, rule_id,
                      [org_id |-> auth.org_id, pattern |-> pattern])
    IN  TableResult(new, 201, "", RowsOf(new, {rule_id}), 0)

\* delete_deny_rule: DELETE ... WHERE id = $1 AND org_id = $2.
delete_deny_rule(rules, auth, rule_id) ==
    IF rule_id \in DOMAIN rules /\ rules[rule_id].org_id = auth.org_id
    THEN TableResult(Remove(rules, {rule_id}), 204, "", {}, 0)
    ELSE TableResult(rules, 404, "Rule not found", {}, 0)

\* list_audit_events (the event_type and date filters and the LIMIT only
\* drop rows).
list_audit_events(audit, auth) ==
    TableResult(audit, 200, "",
                RowsOf(audit, {i \in DOMAIN audit : audit[i].org_id = auth.org_id}),
                0)

\* get_stats: the number of the org's lessons, and per event type the number
\* of the org's audit events.
get_stats(tbl, audit, auth) ==
    LET mine == {i \in DOMAIN audit : audit[i].org_id = auth.org_id}
        types == {audit[i].event_type : i \in mine}
    IN  TableResult(tbl, 200, "",
            {[id |-> et,
              row |-> [org_id |-> auth.org_id,
                       cnt |-> Cardinality({i \in mine : audit[i].event_type = et})]]
               : et \in types},
            Cardinality({i \in DOMAIN tbl : tbl[i].org_id = auth.org_id}))

\* A purge that leaves the audit events of the org where they are.
purge_transaction_keeps_audit(db, o) ==
    [lessons |-> Others(db.lessons, o),
     sharing_audit |-> db.sharing_audit,
     deny_list_rules |-> Others(db.deny_list_rules, o),
     agent_sharing_config |-> Others(db.agent_sharing_config, o),
     sharing_config |-> Others(db.sharing_config, o)]

\* purge_sharing, `async with conn.transaction()`: the five DELETE ... WHERE
\* org_id = $1, committed together.
purge_transaction(db, o) ==
    [lessons |-> Others(db.lessons, o),
     sharing_audit |-> Others(db.sharing_audit, o),
     deny_list_rules |-> Others(db.deny_list_rules, o),
     agent_sharing_config |-> Others(db.agent_sharing_config, o),
     sharing_config |-> Others(db.sharing_config, o)]

\* _record_audit without a lesson: one INSERT on a connection of its own.
_record_audit(audit, org_id, event_type, initiated_by) ==
    AuditInsert(audit, org_id, event_type, initiated_by, 0)

\* purge_sharing: the org's rows are deleted from the five tables in one
\* transaction; the audit event is recorded after it.
purge_sharing(db, auth, confirmation) ==
    IF confirmation # "PURGE"
    THEN [db |-> db, status |-> 400, detail |-> "Confirmation must be 'PURGE'",
          rows |-> {}, count |-> 0]
    ELSE LET o == auth.org_id IN
         [db |-> [lessons |-> Others(db.lessons, o),
                  sharing_audit |->
                      AuditInsert(Others(db.sharing_audit, o), o, "purge",
                                  auth.key_id, 0),
                  deny_list_rules |-> Others(db.deny_list_rules, o),
                  agent_sharing_config |-> Others(db.agent_sharing_config, o),
                  sharing_config |-> Others(db.sharing_config, o)],
          status |-> 200, detail |-> "purged", rows |-> {},
          count |-> Cardinality(DOMAIN Own(db.lessons, o))]

\* A rating that moves the reputation and records nothing.
rate_lesson_unaudited(tbl, audit, auth, lesson_id, delta, t) ==
    IF ~(lesson_id \in DOMAIN tbl /\ tbl[lesson_id].org_id = auth.org_id)
    THEN [lessons |-> tbl, sharing_audit |-> audit, status |-> 404,
          detail |-> "Lesson not found", rows |-> {}, count |-> 0]
    ELSE LET new == [tbl EXCEPT
                       ![lesson_id].reputation_score = @ + delta,
                       ![lesson_id].updated_at = t]
         IN  [lessons |-> new, sharing_audit |-> audit,
              status |-> 200, detail |-> "", rows |-> RowsOf(new, {lesson_id}),
              count |-> 0]

\* rate_lesson: UPDATE lessons SET reputation_score = reputation_score + $1,
\* updated_at = now() WHERE id = $2 AND org_id = $3, and the audit event, in
\* one transaction.
rate_lesson(tbl, audit, auth, lesson_id, delta, t) ==
    IF ~(lesson_id \in DOMAIN tbl /\ tbl[lesson_id].org_id = auth.org_id)
    THEN [lessons |-> tbl, sharing_audit |-> audit, status |-> 404,
          detail |-> "Lesson not found", rows |-> {}, count |-> 0]
    ELSE LET new == [tbl EXCEPT
                       ![lesson_id].reputation_score = @ + delta,
                       ![lesson_id].updated_at = t]
         IN  [lessons |-> new,
              sharing_audit |-> AuditInsert(audit, auth.org_id, "rate",
                                            auth.key_id, lesson_id),
              status |-> 200, detail |-> "", rows |-> RowsOf(new, {lesson_id}),
              count |-> 0]

(* ------------------------------------------ routes/keys.py, run serially *)
\* create_key
create_key(keys, auth, body, key_id) ==
    IF ~_require_root(auth)
    THEN TableResult(keys, 403, "Root key required", {}, 0)
    ELSE LET new == Insert(keys, key_id,
                           NewKeyRow(key_id, auth.org_id, body.project,
                                     body.is_root))
         IN  TableResult(new, 201, "", RowsOf(new, {key_id}), 0)

\* list_keys
list_keys(keys, auth) ==
    IF ~_require_root(auth)
    THEN TableResult(keys, 403, "Root key required", {}, 0)
    ELSE TableResult(keys, 200, "",
                     RowsOf(keys, {k \in DOMAIN keys : keys[k].org_id = auth.org_id}),
                     0)

\* revoke_key when no other request runs between its statements.
revoke_key(keys, auth, key_id, t) ==
    IF ~_require_root(auth)
    THEN TableResult(keys, 403, "Root key required", {}, 0)
    ELSE IF ~(key_id \in DOMAIN keys /\ keys[key_id].org_id = auth.org_id)
    THEN TableResult(keys, 404, "Key not found", {}, 0)
    ELSE IF keys[key_id].revoked_at # Null
    THEN TableResult(keys, 400, "Key already revoked", {}, 0)
    ELSE IF keys[key_id].is_root /\ LastRootRefused(keys, auth.org_id)
    THEN TableResult(keys, 400, "Cannot revoke the last root key", {}, 0)
    ELSE TableResult([keys EXCEPT ![key_id].revoked_at = t], 204, "", {}, 0)

(* ------------------------------------------- the data endpoints as steps *)
\* The response to the call op(id) of the principal auth: its status, the
\* detail or code of an error, and the number a body reports (imported,
\* total, deleted_lessons).
OutOf(op, auth, id, res) ==
    [op |-> op, auth |-> auth, id |-> id, status |-> res.status,
     detail |-> res.detail, count |-> res.count]

\* The counters a stored lesson may reach in a run.
VoteRange == (0 - 1)..MaxVotes

CountersInRange(tbl) ==
    \A i \in DOMAIN tbl : /\ tbl[i].upvotes \in VoteRange
                          /\ tbl[i].downvotes \in VoteRange
                          /\ tbl[i].reputation_score \in VoteRange

\* A lesson handler has run: its table and its answer.
LessonStep(op, auth, id, res) ==
    /\ CountersInRange(res.lessons)
    /\ lessons' = res.lessons
    /\ out' = OutOf(op, auth, id, res)
    /\ UNCHANGED <<api_keys, sharing_config, agent_sharing_config,
                   deny_list_rules, sharing_audit>>

CreateLesson(auth, body) ==
    /\ LessonIds \ DOMAIN lessons # {}
    /\ LET lesson_id == MinOf(LessonIds \ DOMAIN lessons) IN
       LessonStep("create_lesson", auth, lesson_id,
                  create_lesson(lessons, auth, body, lesson_id, now))

SearchLessons(auth, project) ==
    LessonStep("search_lessons", auth, 0, search_lessons(lessons, auth, project))

GetLesson(auth, lesson_id) ==
    LessonStep("get_lesson", auth, lesson_id, get_lesson(lessons, auth, lesson_id))

UpdateLesson(auth, lesson_id, body) ==
    LessonStep("update_lesson", auth, lesson_id,
               update_lesson(lessons, auth, lesson_id, body, now))

DeleteLesson(auth, lesson_id) ==
    LessonStep("delete_lesson", auth, lesson_id,
               delete_lesson(lessons, auth, lesson_id))

ListLessons(auth, project) ==
    LessonStep("list_lessons", auth, 0, list_lessons(lessons, auth, project))

ExportLessons(auth) ==
    LessonStep("export_lessons", auth, 0, export_lessons(lessons, auth))

\* lesson_id = item.id or str(ULID()): the items, each with its id.
RECURSIVE WithIds(_, _)
WithIds(items, free) ==
    IF items = <<>> THEN <<>>
    ELSE IF Head(items).id # Null
         THEN <<Head(items)>> \o WithIds(Tail(items), free)
         ELSE <<[Head(items) EXCEPT !.id = MinOf(free)]>>
              \o WithIds(Tail(items), free \ {MinOf(free)})

ImportLessons(auth, items) ==
    /\ NewIdsNeeded(items) <= Cardinality(LessonIds \ DOMAIN lessons)
    /\ LessonStep("import_lessons", auth, 0,
                  import_lessons(lessons, auth,
                                 WithIds(items, LessonIds \ DOMAIN lessons), now))

RateLesson(auth, lesson_id, delta) ==
    /\ AuditIds \ DOMAIN sharing_audit # {}
    /\ LET res == rate_lesson(lessons, sharing_audit, auth, lesson_id, delta, now) IN
       /\ CountersInRange(res.lessons)
       /\ lessons' = res.lessons
       /\ sharing_audit' = res.sharing_audit
       /\ out' = OutOf("rate_lesson", auth, lesson_id, res)
    /\ UNCHANGED <<api_keys, sharing_config, agent_sharing_config,
                   deny_list_rules>>

GetSharingConfig(auth) ==
    LET res == get_sharing_config(sharing_config, auth) IN
    /\ sharing_config' = res.tbl
    /\ out' = OutOf("get_sharing_config", auth, 0, res)
    /\ UNCHANGED <<api_keys, lessons, agent_sharing_config, deny_list_rules,
                   sharing_audit>>

UpdateSharingConfig(auth, body) ==
    LET res == update_sharing_config(sharing_config, auth, body) IN
    /\ sharing_config' = res.tbl
    /\ out' = OutOf("update_sharing_config", auth, 0, res)
    /\ UNCHANGED <<api_keys, lessons, agent_sharing_config, deny_list_rules,
                   sharing_audit>>

ListAgentConfigs(auth) ==
    /\ out' = OutOf("list_agent_configs", auth, 0,
                    list_agent_configs(agent_sharing_config, auth))
    /\ UNCHANGED <<api_keys, lessons, sharing_config, agent_sharing_config,
                   deny_list_rules, sharing_audit>>

UpsertAgentConfig(auth, agent_id, body) ==
    LET res == upsert_agent_config(agent_sharing_config, auth, agent_id, body) IN
    /\ agent_sharing_config' = res.tbl
    /\ out' = OutOf("upsert_agent_config", auth, 0, res)
    /\ UNCHANGED <<api_keys, lessons, sharing_config, deny_list_rules,
                   sharing_audit>>

ListDenyRules(auth) ==
    /\ out' = OutOf("list_deny_rules", auth, 0,
                    list_deny_rules(deny_list_rules, auth))
    /\ UNCHANGED <<api_keys, lessons, sharing_config, agent_sharing_config,
                   deny_list_rules, sharing_audit>>

CreateDenyRule(auth, pattern) ==
    /\ RuleIds \ DOMAIN deny_list_rules # {}
    /\ LET rule_id == MinOf(RuleIds \ DOMAIN deny_list_rules)
           res == create_deny_rule(deny_list_rules, auth, rule_id, pattern)
       IN  /\ deny_list_rules' = res.tbl
           /\ out' = OutOf("create_deny_rule", auth, rule_id, res)
    /\ UNCHANGED <<api_keys, lessons, sharing_config, agent_sharing_config,
                   sharing_audit>>

DeleteDenyRule(auth, rule_id) ==
    LET res == delete_deny_rule(deny_list_rules, auth, rule_id) IN
    /\ deny_list_rules' = res.tbl
    /\ out' = OutOf("delete_deny_rule", auth, rule_id, res)
    /\ UNCHANGED <<api_keys, lessons, sharing_config, agent_sharing_config,
                   sharing_audit>>

ListAuditEvents(auth) ==
    /\ out' = OutOf("list_audit_events", auth, 0,
                    list_audit_events(sharing_audit, auth))
    /\ UNCHANGED <<api_keys, lessons, sharing_config, agent_sharing_config,
                   deny_list_rules, sharing_audit>>

GetStats(auth) ==
    /\ out' = OutOf("get_stats", auth, 0, get_stats(lessons, sharing_audit, auth))
    /\ UNCHANGED <<api_keys, lessons, sharing_config, agent_sharing_config,
                   deny_list_rules, sharing_audit>>

\* The five tables purge_sharing works on.
SharingDb ==
    [lessons |-> lessons, sharing_audit |-> sharing_audit,
     deny_list_rules |-> deny_list_rules,
     agent_sharing_config |-> agent_sharing_config,
     sharing_config |-> sharing_config]

PurgeSharing(auth, confirmation) ==
    /\ AuditIds \ DOMAIN Others(sharing_audit, auth.org_id) # {}
    /\ LET res == purge_sharing(SharingDb, auth, confirmation) IN
       /\ lessons' = res.db.lessons
       /\ sharing_audit' = res.db.sharing_audit
       /\ deny_list_rules' = res.db.deny_list_rules
       /\ agent_sharing_config' = res.db.agent_sharing_config
       /\ sharing_config' = res.db.sharing_config
       /\ out' = OutOf("purge_sharing", auth, 0, res)
    /\ UNCHANGED api_keys

\* The key endpoints, each run without another request between its
\* statements.
KeyStep(op, auth, id, res) ==
    /\ api_keys' = res.tbl
    /\ out' = OutOf(op, auth, id, res)
    /\ UNCHANGED <<lessons, sharing_config, agent_sharing_config,
                   deny_list_rules, sharing_audit>>

CreateKeySerial(auth, body) ==
    /\ KeyIds \ DOMAIN api_keys # {}
    /\ LET key_id == MinOf(KeyIds \ DOMAIN api_keys) IN
       KeyStep("create_key", auth, key_id,
               create_key(api_keys, auth, body, key_id))

ListKeys(auth) ==
    KeyStep("list_keys", auth, 0, list_keys(api_keys, auth))

RevokeKeySerial(auth, key_id) ==
    KeyStep("revoke_key", auth, key_id, revoke_key(api_keys, auth, key_id, now))

\* A data endpoint leaves the resolver's state, the clock and the bookkeeping
\* of the runs alone.
DataOnly == UNCHANGED <<procVars, now, envVars, httpVars>>

\* Time passes.
Tick ==
    /\ now + TickStep <= MaxTime * TickStep
    /\ now' = now + TickStep
    /\ UNCHANGED <<orgs, api_keys, _key_cache, _last_used_updates,
                   last_used_tasks, req, resp, returned204>>

DEFAULT_RATE_LIMIT == 100
DEFAULT_WINDOW_SECONDS == 60

\* RateLimiter.__init__
RateLimiter(max_requests, window_seconds) ==
    [max_requests |-> max_requests, window_seconds |-> window_seconds,
     _requests |-> <<>>]

NoRateOut == [key |-> "", allowed |-> TRUE, retry_after |-> 0]

\* config.Settings with its defaults.
DefaultSettings ==
    [auth_mode |-> "api-key-only", oidc_issuer |-> FALSE, metrics_enabled |-> TRUE]

\* request.headers.get("content-length"): absent, or a text that int() reads
\* as n, or a text int() refuses.
NoLength == [present |-> FALSE, numeric |-> FALSE, n |-> 0]
Length(n) == [present |-> TRUE, numeric |-> TRUE, n |-> n]
JunkLength == [present |-> TRUE, numeric |-> FALSE, n |-> 0]

\* What OidcValidator.validate returns for a token: None, or an identity.
NoIdentity == [valid |-> FALSE, org_id |-> Null, role |-> "", sub |-> 0]
Identity(org, role) == [valid |-> TRUE, org_id |-> org, role |-> role, sub |-> 1]

\* A bearer token: with the prefix lore_sk_ it hashes to the key_hash of row
\* `key`; without it, `identity` is what the validator makes of it.
ApiKeyToken(k) == [prefix |-> "lore_sk_", key |-> k, identity |-> NoIdentity]
JwtToken(identity) == [prefix |-> "", key |-> 0, identity |-> identity]

\* request.headers.get("authorization", "")
NoAuthorization == [scheme |-> "", token |-> JwtToken(NoIdentity)]
Basic == [scheme |-> "Basic ", token |-> JwtToken(NoIdentity)]
Bearer(token) == [scheme |-> "Bearer ", token |-> token]

\* No request is being served.
NoRequest ==
    [stage |-> "none", route |-> "", method_allowed |-> TRUE,
     content_length |-> NoLength, authorization |-> NoAuthorization,
     body |-> "", x_request_id |-> "", request_id |-> "", auth |-> NoCtx,
     resolved |-> FALSE, auth_error |-> "", path |-> "none", idp |-> FALSE]

\* No response has been sent.
NoResponse ==
    [status |-> 0, content |-> {}, error |-> "", message |-> "",
     headers |-> {}, x_request_id |-> "", retry_after |-> 0]

\* No search has been asked.
NoSearch ==
    [auth |-> NoCtx, project |-> NoProject, tags |-> {}, embedding |-> 0,
     limit |-> 0, min_confidence |-> 0]

\* _resolve_api_key has not run.
NoResolve ==
    [key |-> 0, at |-> 0, cached |-> FALSE, age |-> 0, lookup |-> FALSE,
     evicted |-> {}, size |-> 0]

\* OidcValidator.__init__: no forced refresh yet (0.0), nothing cached; the
\* provider publishes key 1.
OidcValidator == [_last_force_fetch |-> 0, jwk_set |-> {}, idp |-> {1}]

\* _get_signing_key has not run.
NoSigningKey ==
    [kid |-> 0, at |-> 0, missing |-> FALSE, forced |-> FALSE, key |-> 0,
     refreshes |-> <<>>]

\* A role claim that is a JSON array, and a claim the token does not have.
UnhashableRole == "list"
JwtNoClaim == "absent"

\* No request has presented a JWT.
NoJwtOut ==
    [asked |-> FALSE,
     token |-> [kid |-> 0, defect |-> "none", sub |-> FALSE, org |-> Null,
                role |-> JwtNoClaim],
     fault |-> "none", audience |-> FALSE, cached |-> FALSE,
     returned |-> NoIdentity, raised |-> "", ok |-> FALSE, status |-> 0,
     error |-> "", ctx |-> NoCtx]

\* No agent config has been put.
NoAgentPut ==
    [asked |-> FALSE, org_id |-> 0, agent_id |-> "",
     body |-> [enabled |-> "none", categories |-> "none"], had |-> FALSE,
     before |-> [enabled |-> FALSE, categories |-> "[]"]]

\* No call of the client is in progress.
NoRetry ==
    [op |-> "none", state |-> "idle", attempt |-> 0, outcomes |-> <<>>,
     slept |-> <<>>, raised |-> "", result |-> "none"]

\* No client in batch mode has been constructed.
NoBatching ==
    [entered |-> FALSE, closed |-> FALSE, buffer |-> <<>>, lock |-> "free",
     accepted |-> 0, sent |-> <<>>, at_close |-> 0,
     save |-> [pc |-> "idle", items |-> <<>>],
     flusher |-> [pc |-> "none", items |-> <<>>, cancelled |-> FALSE],
     close |-> [pc |-> "idle", items |-> <<>>]]

\* The variables of the specifications of single functions, at rest.
InitAux ==
    /\ search_req = NoSearch
    /\ search_resp = <<>>
    /\ resolve_out = NoResolve
    /\ validator = OidcValidator
    /\ jwks_out = NoSigningKey
    /\ rate_calls = <<>>
    /\ exported = <<>>
    /\ importing = {}
    /\ purging = {}
    /\ last_purge = [o \in OrgIds |-> 0]
    /\ jwt_out = NoJwtOut
    /\ retry = NoRetry
    /\ batching = NoBatching
    /\ voters = <<>>
    /\ agent_put = NoAgentPut

\* The tables are empty and nothing has been answered.
InitData ==
    /\ lessons = <<>>
    /\ sharing_config = <<>>
    /\ agent_sharing_config = <<>>
    /\ deny_list_rules = <<>>
    /\ sharing_audit = <<>>
    /\ out = NoOut
    /\ patches = EmptyBag
    /\ vote_ledger = <<>>
    /\ settings = DefaultSettings
    /\ _rate_limiter = RateLimiter(DEFAULT_RATE_LIMIT, DEFAULT_WINDOW_SECONDS)
    /\ admitted = <<>>
    /\ rate_out = NoRateOut
    /\ http_req = NoRequest
    /\ http_resp = NoResponse
    /\ InitAux

Init ==
    /\ orgs = {}
    /\ api_keys = <<>>
    /\ _key_cache = <<>>
    /\ _last_used_updates = <<>>
    /\ last_used_tasks = {}
    /\ req = [r \in ReqIds |-> IdleReq]
    /\ resp = NoResp
    /\ now = 0
    /\ returned204 = {}
    /\ InitData
    /\ workload = "keys"

\* A step of the resolver, the key endpoints or the bootstrap endpoint leaves
\* the other tables alone.
KeysOnly == UNCHANGED <<dataVars, envVars, httpVars>>

\* One worker serving requests while the clock stands still: every request
\* is made within the cache TTL of the first one.
Next ==
    \/ \E r \in ReqIds : Start(r) /\ KeysOnly
    \/ \E r \in ReqIds : ResolveCheck(r) /\ KeysOnly
    \/ \E r \in ReqIds : ResolveLookup(r) /\ KeysOnly
    \/ \E r \in ReqIds : ResolveCache(r) /\ KeysOnly
    \/ \E r \in ReqIds : ReadHandler(r) /\ KeysOnly
    \/ \E r \in ReqIds : CreateKey(r) /\ KeysOnly
    \/ \E r \in ReqIds : RevokeSelect(r) /\ KeysOnly
    \/ \E r \in ReqIds : RevokeCount(r) /\ KeysOnly
    \/ \E r \in ReqIds : RevokeUpdate(r) /\ KeysOnly
    \/ \E r \in ReqIds : RevokeInvalidate(r) /\ KeysOnly
    \/ \E r \in ReqIds : OrgInitCheck(r) /\ KeysOnly
    \/ \E r \in ReqIds : OrgInitInsert(r) /\ KeysOnly

Spec == Init /\ [][Next]_vars

(* ------------------------------------------------ two tenants, one server *)
\* An admin credential of each tenant.
TenantPrincipals ==
    {[org_id |-> o, project |-> NoProject, is_root |-> TRUE, key_id |-> o,
      role |-> "admin"] : o \in OrgIds}

\* The request bodies the tenants send.
TenantCreateBodies ==
    {[project |-> NoProject, confidence |-> 5, embedding |-> 1]}
TenantUpdateBodies ==
    {[confidence |-> 9, upvotes |-> NoVote, downvotes |-> NoVote],
     [confidence |-> Null, upvotes |-> StrVote("+1"), downvotes |-> NoVote]}
TenantItems ==
    {[id |-> i, project |-> NoProject, confidence |-> 7, embedding |-> 1,
      upvotes |-> 1, downvotes |-> 0] : i \in LessonIds}
Batches(S) == UNION {[1..n -> S] : n \in 1..MaxItems}
TenantConfigBodies == {[enabled |-> "true"], [enabled |-> "none"]}
TenantAgentBodies == {[enabled |-> "true", categories |-> "none"]}
TenantKeyBodies == {[project |-> NoProject, is_root |-> b] : b \in BOOLEAN}
Workloads == {"lessons", "rating", "sharing", "keys"}

InitTenant ==
    /\ orgs = OrgIds
    /\ api_keys = <<>>
    /\ _key_cache = <<>>
    /\ _last_used_updates = <<>>
    /\ last_used_tasks = {}
    /\ req = [r \in ReqIds |-> IdleReq]
    /\ resp = NoResp
    /\ now = 0
    /\ returned204 = {}
    /\ InitData
    /\ workload \in Workloads

\* The clients of a run call the lesson endpoints, or the rating endpoints
\* (with purge and the audit trail), or the sharing endpoints (with purge),
\* or the key endpoints.
NextTenant ==
    \/ \E auth \in TenantPrincipals, body \in TenantCreateBodies :
          workload \in {"lessons", "rating"} /\ CreateLesson(auth, body) /\ DataOnly
    \/ \E auth \in TenantPrincipals :
          workload = "lessons" /\ SearchLessons(auth, NoProject) /\ DataOnly
    \/ \E auth \in TenantPrincipals, id \in LessonIds :
          workload = "lessons" /\ GetLesson(auth, id) /\ DataOnly
    \/ \E auth \in TenantPrincipals, id \in LessonIds, body \in TenantUpdateBodies :
          workload = "lessons" /\ UpdateLesson(auth, id, body) /\ DataOnly
    \/ \E auth \in TenantPrincipals, id \in LessonIds :
          workload = "lessons" /\ DeleteLesson(auth, id) /\ DataOnly
    \/ \E auth \in TenantPrincipals :
          workload = "lessons" /\ ListLessons(auth, NoProject) /\ DataOnly
    \/ \E auth \in TenantPrincipals :
          workload = "lessons" /\ ExportLessons(auth) /\ DataOnly
    \/ \E auth \in TenantPrincipals, items \in Batches(TenantItems) :
          workload = "lessons" /\ ImportLessons(auth, items) /\ DataOnly
    \/ \E auth \in TenantPrincipals, id \in LessonIds :
          workload = "rating" /\ RateLesson(auth, id, 1) /\ DataOnly
    \/ \E auth \in TenantPrincipals :
          workload = "rating" /\ GetStats(auth) /\ DataOnly
    \/ \E auth \in TenantPrincipals :
          workload \in {"rating", "sharing"} /\ ListAuditEvents(auth) /\ DataOnly
    \/ \E auth \in TenantPrincipals, c \in {"PURGE", "purge"} :
          workload \in {"rating", "sharing"} /\ PurgeSharing(auth, c) /\ DataOnly
    \/ \E auth \in TenantPrincipals :
          workload = "sharing" /\ GetSharingConfig(auth) /\ DataOnly
    \/ \E auth \in TenantPrincipals, body \in TenantConfigBodies :
          workload = "sharing" /\ UpdateSharingConfig(auth, body) /\ DataOnly
    \/ \E auth \in TenantPrincipals :
          workload = "sharing" /\ ListAgentConfigs(auth) /\ DataOnly
    \/ \E auth \in TenantPrincipals, g \in AgentIds, body \in TenantAgentBodies :
          workload = "sharing" /\ UpsertAgentConfig(auth, g, body) /\ DataOnly
    \/ \E auth \in TenantPrincipals :
          workload = "sharing" /\ ListDenyRules(auth) /\ DataOnly
    \/ \E auth \in TenantPrincipals :
          workload = "sharing" /\ CreateDenyRule(auth, "secret") /\ DataOnly
    \/ \E auth \in TenantPrincipals, id \in RuleIds :
          workload = "sharing" /\ DeleteDenyRule(auth, id) /\ DataOnly
    \/ \E auth \in TenantPrincipals, body \in TenantKeyBodies :
          workload = "keys" /\ CreateKeySerial(auth, body) /\ DataOnly
    \/ \E auth \in TenantPrincipals :
          workload = "keys" /\ ListKeys(auth) /\ DataOnly
    \/ \E auth \in TenantPrincipals, id \in KeyIds :
          workload = "keys" /\ RevokeKeySerial(auth, id) /\ DataOnly

SpecTenant == InitTenant /\ [][NextTenant]_vars

(* ------------------------------------------------ middleware.py, the limiter *)
\* The keys the limiter is asked about (the raw bearer strings).
RateKeys == {"lore_sk_a", "lore_sk_b"}

\* self._requests[key] of the defaultdict(list)
TimestampsOf(rl, key) ==
    IF key \in DOMAIN rl._requests THEN rl._requests[key] ELSE <<>>

\* while timestamps and timestamps[0] < window_start: timestamps.pop(0)
RECURSIVE Prune(_, _)
Prune(timestamps, window_start) ==
    IF timestamps # <<>> /\ Head(timestamps) < window_start
    THEN Prune(Tail(timestamps), window_start)
    ELSE timestamps

\* A window that admits one request too many.
Full_off_by_one(timestamps, max_requests) == Len(timestamps) > max_requests

\* len(timestamps) >= self.max_requests
Full(timestamps, max_requests) == Len(timestamps) >= max_requests

\* time.monotonic() is read in half seconds: a time is a number of ticks.
TicksPerSecond == 2

\* int(x) of a duration of d ticks, d >= 0: the whole seconds in it.
WholeSeconds(d) == d \div TicksPerSecond

\* A retry_after that is the whole seconds of the wait and no more.
RetryAfter_truncated(oldest, window_start) == WholeSeconds(oldest - window_start)

\* int(timestamps[0] - window_start) + 1
RetryAfter(oldest, window_start) == WholeSeconds(oldest - window_start) + 1

\* RateLimiter.is_allowed(key) at time t (in ticks): the limiter after the
\* call, and (allowed, retry_after).
is_allowed(rl, key, t) ==
    LET window_start == t - rl.window_seconds * TicksPerSecond
        timestamps == Prune(TimestampsOf(rl, key), window_start)
        keep(ts) == [rl EXCEPT !._requests =
                        [k \in (DOMAIN rl._requests) \cup {key} |->
                            IF k = key THEN ts ELSE rl._requests[k]]]
    IN  IF Full(timestamps, rl.max_requests)
        THEN LET retry_after == RetryAfter(Head(timestamps), window_start) IN
             [limiter |-> keep(timestamps), allowed |-> FALSE,
              retry_after |-> IF retry_after < 1 THEN 1 ELSE retry_after]
        ELSE [limiter |-> keep(Append(timestamps, t)), allowed |-> TRUE,
              retry_after |-> 0]

\* The key has not called is_allowed.
NoCall == [at |-> 0, allowed |-> TRUE, retry_after |-> 0, waited |-> FALSE]

\* A call of is_allowed(key); an admitted request is entered in the record
\* of admissions.  rate_calls keeps the answer, the time of a refusal, and
\* whether the call came retry_after seconds or more after a refusal of the
\* key's call before it.
IsAllowed(key) ==
    LET res == is_allowed(_rate_limiter, key, now) IN
    /\ _rate_limiter' = res.limiter
    /\ rate_out' = [key |-> key, allowed |-> res.allowed,
                    retry_after |-> res.retry_after]
    /\ admitted' = IF res.allowed
                   THEN [admitted EXCEPT ![key] = Append(@, now)]
                   ELSE admitted
    /\ rate_calls' =
          [k \in (DOMAIN rate_calls) \cup {key} |->
              IF k # key THEN rate_calls[k]
              ELSE LET prev == IF key \in DOMAIN rate_calls
                               THEN rate_calls[key] ELSE NoCall
                   IN  [at |-> IF res.allowed THEN 0 ELSE now,
                        allowed |-> res.allowed,
                        retry_after |-> res.retry_after,
                        waited |-> /\ ~prev.allowed
                                   /\ now >= prev.at + prev.retry_after
                                                         * TicksPerSecond]]
    /\ UNCHANGED <<keyVars, dataVars, workload, patches, vote_ledger,
                   searchVars, resolve_out, oidcVars, exported, moreVars,
                   settings,
                   http_req, http_resp>>

\* time.monotonic() advances by a tick.
RateTick ==
    /\ now < MaxClock * TicksPerSecond
    /\ now' = now + 1
    /\ UNCHANGED <<orgs, api_keys, _key_cache, _last_used_updates,
                   last_used_tasks, req, resp, returned204, dataVars, envVars,
                   httpVars>>

\* A limiter with a limit of 1..MaxAdmit requests in 1..MaxWindow seconds.
InitRate ==
    /\ orgs = {}
    /\ api_keys = <<>>
    /\ _key_cache = <<>>
    /\ _last_used_updates = <<>>
    /\ last_used_tasks = {}
    /\ req = [r \in ReqIds |-> IdleReq]
    /\ resp = NoResp
    /\ now = 0
    /\ returned204 = {}
    /\ lessons = <<>>
    /\ sharing_config = <<>>
    /\ agent_sharing_config = <<>>
    /\ deny_list_rules = <<>>
    /\ sharing_audit = <<>>
    /\ out = NoOut
    /\ patches = EmptyBag
    /\ vote_ledger = <<>>
    /\ workload = "keys"
    /\ settings = DefaultSettings
    /\ \E n \in 1..MaxAdmit, w \in 1..MaxWindow : _rate_limiter = RateLimiter(n, w)
    /\ admitted = [k \in RateKeys |-> <<>>]
    /\ rate_out = NoRateOut
    /\ http_req = NoRequest
    /\ http_resp = NoResponse
    /\ InitAux

NextRate ==
    \/ \E key \in RateKeys : IsAllowed(key)
    \/ RateTick

SpecRate == InitRate /\ [][NextRate]_vars

(* ------------------------------------------ one tenant, scoped credentials *)
\* A writer credential without a project and one restricted to "backend".
ProjectPrincipals ==
    {[org_id |-> 1, project |-> NoProject, is_root |-> FALSE, key_id |-> 1,
      role |-> "writer"],
     [org_id |-> 1, project |-> "backend", is_root |-> FALSE, key_id |-> 2,
      role |-> "writer"]}
ScopedPrincipals == {a \in ProjectPrincipals : a.project # NoProject}

\* The projects a body or a query names.
NamedProjects == {NoProject, "frontend"}
ProjectCreateBodies ==
    {[project |-> p, confidence |-> 5, embedding |-> 1] : p \in NamedProjects}
ProjectUpdateBodies ==
    {[confidence |-> 9, upvotes |-> NoVote, downvotes |-> NoVote]}
ProjectItems ==
    {[id |-> i, project |-> "frontend", confidence |-> 7, embedding |-> 1,
      upvotes |-> 0, downvotes |-> 0] : i \in LessonIds}

InitProject ==
    /\ orgs = {1}
    /\ api_keys = <<>>
    /\ _key_cache = <<>>
    /\ _last_used_updates = <<>>
    /\ last_used_tasks = {}
    /\ req = [r \in ReqIds |-> IdleReq]
    /\ resp = NoResp
    /\ now = 0
    /\ returned204 = {}
    /\ InitData
    /\ workload = "lessons"

NextProject ==
    \/ \E auth \in ProjectPrincipals, body \in ProjectCreateBodies :
          CreateLesson(auth, body) /\ DataOnly
    \/ \E auth \in ProjectPrincipals, p \in NamedProjects :
          SearchLessons(auth, p) /\ DataOnly
    \/ \E auth \in ProjectPrincipals, id \in LessonIds :
          GetLesson(auth, id) /\ DataOnly
    \/ \E auth \in ProjectPrincipals, id \in LessonIds, body \in ProjectUpdateBodies :
          UpdateLesson(auth, id, body) /\ DataOnly
    \/ \E auth \in ProjectPrincipals, id \in LessonIds :
          DeleteLesson(auth, id) /\ DataOnly
    \/ \E auth \in ProjectPrincipals, p \in NamedProjects :
          ListLessons(auth, p) /\ DataOnly
    \/ \E auth \in ProjectPrincipals :
          ExportLessons(auth) /\ DataOnly
    \/ \E auth \in ProjectPrincipals, items \in Batches(ProjectItems) :
          ImportLessons(auth, items) /\ DataOnly
    \/ \E auth \in ProjectPrincipals, id \in LessonIds :
          RateLesson(auth, id, 1) /\ DataOnly

SpecProject == InitProject /\ [][NextProject]_vars

(* ----------------------------------------------- concurrent vote patches *)
VoteFields == {"upvotes", "downvotes"}

VotePrincipal ==
    [org_id |-> 1, project |-> NoProject, is_root |-> FALSE, key_id |-> 1,
     role |-> "writer"]

\* The bodies of the patches: upvotes "+1", downvotes "+1", upvotes 1.
VotePatchBodies ==
    {[confidence |-> Null, upvotes |-> StrVote("+1"), downvotes |-> NoVote],
     [confidence |-> Null, upvotes |-> NoVote, downvotes |-> StrVote("+1")],
     [confidence |-> Null, upvotes |-> IntVote(1), downvotes |-> NoVote]}

\* The ledger of a counter that was just written as a whole.
LedgerStart(v) == [start |-> v, n |-> 0, overlap |-> FALSE]

\* The ledger after the patch p was answered with status: a "+1" answered 200
\* counts (and it overlapped another one if a "+1" patch of the same counter
\* was in flight, flying, when it ran); an integer answered 200 starts the
\* counter anew.
Tally(led, after, p, status, flying) ==
    [i \in DOMAIN led |->
       [f \in VoteFields |->
          IF i # p.id \/ status # 200 \/ p.body[f].kind = "none"
          THEN led[i][f]
          ELSE IF p.body[f].kind = "str" /\ p.body[f].s = "+1"
          THEN [start |-> led[i][f].start, n |-> led[i][f].n + 1,
                overlap |-> led[i][f].overlap \/ p \in flying]
          ELSE LedgerStart(after[i][f])]]

VotesFrame == UNCHANGED <<procVars, now, workload, auxVars, httpVars>>

\* POST /v1/lessons by the one client.
VotesCreate ==
    /\ CreateLesson(VotePrincipal, [project |-> NoProject, confidence |-> 5,
                                    embedding |-> 1])
    /\ vote_ledger' = Insert(vote_ledger, out'.id,
                             [f \in VoteFields |-> LedgerStart(0)])
    /\ UNCHANGED patches
    /\ VotesFrame

\* DELETE /v1/lessons/{id}
VotesDelete(id) ==
    /\ DeleteLesson(VotePrincipal, id)
    /\ vote_ledger' = Remove(vote_ledger, {id} \ DOMAIN lessons')
    /\ UNCHANGED patches
    /\ VotesFrame

\* A PATCH /v1/lessons/{id} arrives: the handler has its SET clause and waits
\* for a database connection.  At most MaxReq patches are in flight.
PatchArrive(id, body) ==
    /\ BagCardinality(patches) < MaxReq
    /\ patches' = patches (+) SetToBag({[id |-> id, body |-> body]})
    /\ UNCHANGED <<api_keys, dataVars, vote_ledger>>
    /\ VotesFrame

\* The UPDATE of a patch in flight runs and the patch is answered.
PatchExecute(p) ==
    /\ BagIn(p, patches)
    /\ UpdateLesson(VotePrincipal, p.id, p.body)
    /\ patches' = patches (-) SetToBag({p})
    /\ vote_ledger' = Tally(vote_ledger, lessons', p, out'.status,
                            BagToSet(patches'))
    /\ VotesFrame

InitVotes == InitProject

NextVotes ==
    \/ VotesCreate
    \/ \E id \in LessonIds : VotesDelete(id)
    \/ \E id \in LessonIds, body \in VotePatchBodies : PatchArrive(id, body)
    \/ \E p \in BagToSet(patches) : PatchExecute(p)

SpecVotes == InitVotes /\ [][NextVotes]_vars

(* ------------------------------------------- one request through the app *)
MAX_BODY_SIZE == 1048576

AuthModes == {"api-key-only", "dual", "oidc-required"}

\* A route: the dependency that resolves its caller, whether it takes a JSON
\* body, whether it has validated query parameters, whether its handler
\* calls _require_root, the status of its return, and the HTTPExceptions
\* its handler raises.
Route(name, depends, body, params, root, ok, raises) ==
    [name |-> name, depends |-> depends, body |-> body, params |-> params,
     root |-> root, ok |-> ok, raises |-> raises]

Raise(status, detail) == [status |-> status, detail |-> detail]

\* routes/keys.py
KeysRoutes ==
    {Route("POST /v1/keys", "get_auth_context", TRUE, FALSE, TRUE, 201, {}),
     Route("GET /v1/keys", "get_auth_context", FALSE, FALSE, TRUE, 200, {}),
     Route("DELETE /v1/keys/{key_id}", "get_auth_context", FALSE, FALSE, TRUE,
           204, {Raise(404, "Key not found"),
                 Raise(400, "Key already revoked"),
                 Raise(400, "Cannot revoke the last root key")})}

\* routes/lessons.py
LessonsRoutes ==
    {Route("POST /v1/lessons", "require_role", TRUE, FALSE, FALSE, 201, {}),
     Route("POST /v1/lessons/search", "get_auth_context", TRUE, FALSE, FALSE,
           200, {}),
     Route("GET /v1/lessons/{lesson_id}", "get_auth_context", FALSE, FALSE,
           FALSE, 200, {Raise(404, "Lesson not found")}),
     Route("PATCH /v1/lessons/{lesson_id}", "require_role", TRUE, FALSE, FALSE,
           200, {Raise(422, "No fields to update"),
                 Raise(404, "Lesson not found")}),
     Route("DELETE /v1/lessons/{lesson_id}", "require_role", FALSE, FALSE,
           FALSE, 204, {Raise(404, "Lesson not found")}),
     Route("GET /v1/lessons", "get_auth_context", FALSE, TRUE, FALSE, 200, {}),
     Route("POST /v1/lessons/export", "get_auth_context", FALSE, FALSE, FALSE,
           200, {}),
     Route("POST /v1/lessons/import", "require_role", TRUE, FALSE, FALSE, 200,
           {})}

\* routes/sharing.py
SharingRoutes ==
    {Route("GET /v1/sharing/config", "get_auth_context", FALSE, FALSE, FALSE,
           200, {}),
     Route("PUT /v1/sharing/config", "get_auth_context", TRUE, FALSE, FALSE,
           200, {}),
     Route("GET /v1/sharing/agents", "get_auth_context", FALSE, FALSE, FALSE,
           200, {}),
     Route("PUT /v1/sharing/agents/{agent_id}", "get_auth_context", TRUE,
           FALSE, FALSE, 200, {}),
     Route("GET /v1/sharing/deny-list", "get_auth_context", FALSE, FALSE,
           FALSE, 200, {}),
     Route("POST /v1/sharing/deny-list", "get_auth_context", TRUE, FALSE,
           FALSE, 201, {}),
     Route("DELETE /v1/sharing/deny-list/{rule_id}", "get_auth_context", FALSE,
           FALSE, FALSE, 204, {Raise(404, "Rule not found")}),
     Route("GET /v1/sharing/audit", "get_auth_context", FALSE, TRUE, FALSE,
           200, {}),
     Route("GET /v1/sharing/stats", "get_auth_context", FALSE, FALSE, FALSE,
           200, {}),
     Route("POST /v1/sharing/purge", "get_auth_context", TRUE, FALSE, FALSE,
           200, {Raise(400, "Confirmation must be 'PURGE'")}),
     Route("POST /v1/lessons/{lesson_id}/rate", "get_auth_context", TRUE,
           FALSE, FALSE, 200, {Raise(404, "Lesson not found")})}

\* app.py
AppRoutes ==
    {Route("GET /health", "none", FALSE, FALSE, FALSE, 200, {}),
     Route("GET /ready", "none", FALSE, FALSE, FALSE, 200, {}),
     Route("GET /metrics", "none", FALSE, FALSE, FALSE, 200, {}),
     Route("POST /v1/org/init", "none", TRUE, FALSE, FALSE, 201,
           {Raise(409, "Org already exists")})}

\* app.include_router(...) and the routes of app itself
Routes == KeysRoutes \cup LessonsRoutes \cup SharingRoutes \cup AppRoutes

RouteNames == {r.name : r \in Routes}
RouteOf(name) == CHOOSE r \in Routes : r.name = name

\* A path no route matches.
UnknownPath == "GET /v1/nowhere"

(* the responses *)
\* JSONResponse(status_code=..., content=...): the keys of the body, and the
\* values of its keys error and message where it has them.
JSONResponse(status, content, error, message) ==
    [NoResponse EXCEPT !.status = status, !.content = content,
                       !.error = error, !.message = message]

\* The return of a handler: a 2xx response with the handler's payload.
Returned(status) == [NoResponse EXCEPT !.status = status]

\* auth_error_handler
auth_error_handler(error_code, status) ==
    JSONResponse(status, {"error", "message"}, error_code, error_code)

\* error_codes.get(exc.status_code, "error")
error_codes(status) ==
    CASE status = 400 -> "bad_request"
      [] status = 401 -> "unauthorized"
      [] status = 403 -> "forbidden"
      [] status = 404 -> "not_found"
      [] status = 405 -> "method_not_allowed"
      [] status = 409 -> "conflict"
      [] status = 413 -> "request_too_large"
      [] status = 422 -> "validation_error"
      [] status = 429 -> "rate_limit_exceeded"
      [] OTHER -> "error"

\* http_exception_handler
http_exception_handler(status, detail) ==
    JSONResponse(status, {"error", "message"}, error_codes(status),
                 IF detail # "" THEN detail ELSE "HTTP")

\* validation_exception_handler for an error list of the given type
validation_exception_handler(type) ==
    IF type = "json_invalid"
    THEN JSONResponse(400, {"error", "message"}, "malformed_json",
                      "Request body contains invalid JSON.")
    ELSE JSONResponse(422, {"error", "message"}, "validation_error",
                      "loc: msg")

\* general_exception_handler
general_exception_handler ==
    JSONResponse(500, {"error", "message"}, "internal_error",
                 "An internal server error occurred.")

(* credential resolution, one call at a time *)
\* The result of get_auth_context: the AuthContext or the AuthError, which
\* resolver ran, whether the validator was handed the token, and what
\* _resolve_api_key left in the cache and the debounce table.
AuthResult(ok, error, status, ctx, path, idp, cache, updates, tasks) ==
    [ok |-> ok, error |-> error, status |-> status, ctx |-> ctx,
     path |-> path, idp |-> idp, cache |-> cache, updates |-> updates,
     tasks |-> tasks, lookup |-> FALSE]

\* The result of a resolution that read the row from the database.
Looked(result) == [result EXCEPT !.lookup = TRUE]

\* key_id = f"oidc:{identity.sub}": an id that is no key's id.
OidcKeyId(sub) == 100 + sub

\* _resolve_api_key when no other request runs between its statements; E
\* is what the eviction deletes.
_resolve_api_key(keys, cache, updates, E, h, t) ==
    IF CacheFresh(cache, h, t)
    THEN LET v == _validate_row(cache[h].row) IN
         AuthResult(v.ok, v.error, 401, v.ctx, "api_key", FALSE, cache,
                    updates, {})
    ELSE IF h \notin DOMAIN keys
    THEN Looked(AuthResult(FALSE, "invalid_api_key", 401, NoCtx, "api_key",
                           FALSE, cache, updates, {}))
    ELSE LET row == SelectedRow(keys[h])
             v == _validate_row(row)
             due == v.ok /\ LastUsedDue(updates, row.id, t)
         IN  Looked(AuthResult(v.ok, v.error, 401, v.ctx, "api_key", FALSE,
                               CachePut(cache, E, h, row, t),
                               IF due
                               THEN [k \in (DOMAIN updates) \cup {row.id} |->
                                       IF k = row.id THEN t ELSE updates[k]]
                               ELSE updates,
                               IF due THEN {row.id} ELSE {}))

\* A resolver that takes the role claim as the role.
_resolve_jwt_role_as_claimed(token, st, cache, updates) ==
    IF ~st.oidc_issuer
    THEN AuthResult(FALSE, "oidc_not_configured", 401, NoCtx, "jwt", FALSE,
                    cache, updates, {})
    ELSE LET identity == token.identity IN
         IF ~identity.valid
         THEN AuthResult(FALSE, "invalid_token", 401, NoCtx, "jwt", TRUE,
                         cache, updates, {})
         ELSE IF identity.org_id = Null
         THEN AuthResult(FALSE, "missing_org_claim", 403, NoCtx, "jwt", TRUE,
                         cache, updates, {})
         ELSE AuthResult(TRUE, "", 200,
                         [org_id |-> identity.org_id, project |-> NoProject,
                          is_root |-> (identity.role = "admin"),
                          key_id |-> OidcKeyId(identity.sub),
                          role |-> identity.role],
                         "jwt", TRUE, cache, updates, {})

\* _resolve_jwt; `identity.role in ROLE_PERMISSIONS` on a role claim that is
\* a list raises TypeError (ROLE_PERMISSIONS is a dict), which nothing
\* catches.
_resolve_jwt(token, st, cache, updates) ==
    IF ~st.oidc_issuer
    THEN AuthResult(FALSE, "oidc_not_configured", 401, NoCtx, "jwt", FALSE,
                    cache, updates, {})
    ELSE LET identity == token.identity IN
         IF ~identity.valid
         THEN AuthResult(FALSE, "invalid_token", 401, NoCtx, "jwt", TRUE,
                         cache, updates, {})
         ELSE IF identity.org_id = Null
         THEN AuthResult(FALSE, "missing_org_claim", 403, NoCtx, "jwt", TRUE,
                         cache, updates, {})
         ELSE IF identity.role = UnhashableRole
         THEN AuthResult(FALSE, "TypeError", 500, NoCtx, "jwt", TRUE,
                         cache, updates, {})
         ELSE LET role == IF identity.role \in Roles THEN identity.role
                          ELSE "reader"
              IN  AuthResult(TRUE, "", 200,
                             [org_id |-> identity.org_id, project |-> NoProject,
                              is_root |-> (role = "admin"),
                              key_id |-> OidcKeyId(identity.sub),
                              role |-> role],
                             "jwt", TRUE, cache, updates, {})

\* A resolver that does not look at the mode.
get_auth_context_any_mode(authorization, st, keys, cache, updates, E, t) ==
    IF authorization.scheme # "Bearer "
    THEN AuthResult(FALSE, "missing_api_key", 401, NoCtx, "none", FALSE,
                    cache, updates, {})
    ELSE IF authorization.token.prefix = "lore_sk_"
    THEN _resolve_api_key(keys, cache, updates, E, authorization.token.key, t)
    ELSE _resolve_jwt(authorization.token, st, cache, updates)

\* get_auth_context
get_auth_context(authorization, st, keys, cache, updates, E, t) ==
    IF authorization.scheme # "Bearer "
    THEN AuthResult(FALSE, "missing_api_key", 401, NoCtx, "none", FALSE,
                    cache, updates, {})
    ELSE LET token == authorization.token
             mode == st.auth_mode
         IN  IF token.prefix = "lore_sk_"
             THEN IF mode = "oidc-required"
                  THEN AuthResult(FALSE, "api_key_not_allowed", 401, NoCtx,
                                  "none", FALSE, cache, updates, {})
                  ELSE _resolve_api_key(keys, cache, updates, E, token.key, t)
             ELSE IF mode = "api-key-only"
                  THEN AuthResult(FALSE, "invalid_api_key", 401, NoCtx,
                                  "none", FALSE, cache, updates, {})
                  ELSE _resolve_jwt(token, st, cache, updates)

(* the request on its way through the middleware stack and the route *)
limiterVars == <<_rate_limiter, admitted, rate_out>>
credVars == <<api_keys, _key_cache, _last_used_updates, last_used_tasks>>
httpRest == <<orgs, req, resp, now, returned204, dataVars, envVars, settings>>

\* The response leaves through RequestContextMiddleware, which sets the
\* header X-Request-Id to the request's id.
Stamped(response) ==
    [response EXCEPT !.headers = @ \cup {"X-Request-Id"},
                     !.x_request_id = http_req.request_id]

\* The request is answered.
Send(response) ==
    /\ http_resp' = response
    /\ http_req' = [http_req EXCEPT !.stage = "done"]

\* The request goes on to the next stage.
Pass(stage) ==
    /\ http_req' = [http_req EXCEPT !.stage = stage]
    /\ UNCHANGED http_resp

\* A stack with the limiter outside the body-size cap.
install_middleware_limiter_first ==
    <<"RequestContextMiddleware", "RateLimitMiddleware",
      "BodySizeLimitMiddleware">>

\* install_middleware: the middlewares from the outermost to the innermost
\* (the one added last is the outermost).
install_middleware ==
    <<"RequestContextMiddleware", "BodySizeLimitMiddleware",
      "RateLimitMiddleware">>

\* call_next of a middleware: the middleware inside it, or the router.
call_next(middleware) ==
    LET i == CHOOSE j \in DOMAIN install_middleware :
                install_middleware[j] = middleware
    IN  IF i < Len(install_middleware) THEN install_middleware[i + 1]
        ELSE "Router"

\* RequestContextMiddleware.dispatch up to call_next: the request's id is
\* the client's X-Request-Id or a new uuid4.
RequestContextMiddleware ==
    /\ http_req.stage = "RequestContextMiddleware"
    /\ http_req' = [http_req EXCEPT
                      !.stage = call_next("RequestContextMiddleware"),
                      !.request_id = IF http_req.x_request_id # ""
                                     THEN http_req.x_request_id ELSE "uuid4"]
    /\ UNCHANGED <<http_resp, limiterVars, credVars, httpRest>>

\* BodySizeLimitMiddleware.dispatch
BodySizeLimitMiddleware ==
    /\ http_req.stage = "BodySizeLimitMiddleware"
    /\ LET content_length == http_req.content_length IN
       IF /\ content_length.present
          /\ content_length.numeric
          /\ content_length.n > MAX_BODY_SIZE
       THEN Send(Stamped(JSONResponse(413, {"error", "message"},
                                      "request_too_large",
                                      "Request body exceeds MAX_BODY_SIZE bytes.")))
       ELSE Pass(call_next("BodySizeLimitMiddleware"))
    /\ UNCHANGED <<limiterVars, credVars, httpRest>>

\* RateLimitMiddleware.dispatch
RateLimitMiddleware ==
    /\ http_req.stage = "RateLimitMiddleware"
    /\ IF http_req.authorization.scheme = "Bearer "
       THEN LET key == http_req.authorization.token
                res == is_allowed(_rate_limiter, key, now * TicksPerSecond)
            IN  /\ _rate_limiter' = res.limiter
                /\ rate_out' = [key |-> "Bearer", allowed |-> res.allowed,
                                retry_after |-> res.retry_after]
                /\ admitted' =
                     IF res.allowed
                     THEN [k \in (DOMAIN admitted) \cup {key} |->
                             IF k = key
                             THEN Append(IF key \in DOMAIN admitted
                                         THEN admitted[key] ELSE <<>>, now)
                             ELSE admitted[k]]
                     ELSE admitted
                /\ IF res.allowed
                   THEN Pass(call_next("RateLimitMiddleware"))
                   ELSE Send(Stamped(
                          [JSONResponse(429, {"error", "message"},
                                        "rate_limit_exceeded",
                                        "Too many requests. Please retry later.")
                             EXCEPT !.headers = {"Retry-After"},
                                    !.retry_after = res.retry_after]))
       ELSE /\ Pass(call_next("RateLimitMiddleware"))
            /\ UNCHANGED limiterVars
    /\ UNCHANGED <<credVars, httpRest>>

\* The router finds the route of the request: no path matches (404), the
\* path matches but not the method (405), or a route takes the request.
\* Both errors are HTTPExceptions and go to http_exception_handler.
Router ==
    /\ http_req.stage = "Router"
    /\ IF http_req.route \notin RouteNames
       THEN Send(Stamped(http_exception_handler(404, "Not Found")))
       ELSE IF ~http_req.method_allowed
       THEN Send(Stamped(http_exception_handler(405, "Method Not Allowed")))
       ELSE Pass("ReadBody")
    /\ UNCHANGED <<limiterVars, credVars, httpRest>>

\* The route reads the JSON body before it solves its dependencies: a body
\* that is no JSON is a RequestValidationError of type json_invalid.
ReadBody ==
    /\ http_req.stage = "ReadBody"
    /\ IF RouteOf(http_req.route).body /\ http_req.body = "malformed"
       THEN Send(Stamped(validation_exception_handler("json_invalid")))
       ELSE Pass("SolveDependencies")
    /\ UNCHANGED <<limiterVars, credVars, httpRest>>

\* The route solves its dependencies: get_auth_context (under require_role
\* for the writing lesson routes) raises at once; the errors of the
\* parameters and of the body are raised together afterwards.
SolveDependencies ==
    /\ http_req.stage = "SolveDependencies"
    /\ LET route == RouteOf(http_req.route)
           invalid == (route.body \/ route.params) /\ http_req.body = "invalid"
       IN
       IF route.depends = "none"
       THEN /\ IF invalid
               THEN Send(Stamped(validation_exception_handler("missing")))
               ELSE Pass("Endpoint")
            /\ UNCHANGED credVars
       ELSE \E E \in EvictChoices(_key_cache) :
            LET a == get_auth_context(http_req.authorization, settings,
                                      api_keys, _key_cache,
                                      _last_used_updates, E, now)
                refused == /\ a.ok
                           /\ route.depends = "require_role"
                           /\ ~require_role(a.ctx, {"writer", "admin"})
                error == IF refused THEN "insufficient_role" ELSE a.error
                status == IF refused THEN 403 ELSE a.status
                seen == [http_req EXCEPT !.resolved = TRUE, !.auth = a.ctx,
                                         !.auth_error = error,
                                         !.path = a.path, !.idp = a.idp]
            IN  /\ _key_cache' = a.cache
                /\ _last_used_updates' = a.updates
                /\ last_used_tasks' = last_used_tasks \cup a.tasks
                /\ UNCHANGED api_keys
                /\ IF error # ""
                   THEN /\ http_resp' = Stamped(auth_error_handler(error, status))
                        /\ http_req' = [seen EXCEPT !.stage = "done"]
                   ELSE IF invalid
                   THEN /\ http_resp' =
                             Stamped(validation_exception_handler("missing"))
                        /\ http_req' = [seen EXCEPT !.stage = "done"]
                   ELSE /\ http_req' = [seen EXCEPT !.stage = "Endpoint"]
                        /\ UNCHANGED http_resp
    /\ UNCHANGED <<limiterVars, httpRest>>

\* The ways a handler ends: its return, each of its raise statements, and an
\* exception from the database it talks to (health talks to none, metrics
\* and ready answer by themselves).
Exits(route) ==
    {[kind |-> "return", status |-> route.ok, detail |-> ""]}
      \cup {[kind |-> "raise", status |-> e.status, detail |-> e.detail] :
              e \in route.raises}
      \cup (IF route.name = "GET /health" THEN {}
            ELSE {[kind |-> "exception", status |-> 500, detail |-> ""]})

\* The handler of the route runs.  What it does to the tables is the
\* subject of the specifications above; here it is taken by the way it ends.
\* A return and an HTTPException leave through the middleware stack; an
\* exception that is no HTTPException is answered by
\* general_exception_handler outside the stack.
Endpoint ==
    /\ http_req.stage = "Endpoint"
    /\ LET route == RouteOf(http_req.route) IN
       IF route.name = "GET /metrics"
       THEN IF ~settings.metrics_enabled
            THEN Send(Stamped(JSONResponse(404, {"error"}, "metrics_disabled", "")))
            ELSE Send(Stamped(Returned(200)))
       ELSE IF route.name = "GET /ready"
       THEN \E all_ok \in BOOLEAN :
              Send(Stamped(JSONResponse(IF all_ok THEN 200 ELSE 503,
                                        {"status", "checks"}, "", "")))
       ELSE IF route.root /\ ~_require_root(http_req.auth)
       THEN Send(Stamped(http_exception_handler(403, "Root key required")))
       ELSE \E exit \in Exits(route) :
              CASE exit.kind = "return" -> Send(Stamped(Returned(exit.status)))
                [] exit.kind = "raise" ->
                     Send(Stamped(http_exception_handler(exit.status, exit.detail)))
                [] OTHER -> Send(general_exception_handler)
    /\ UNCHANGED <<limiterVars, credVars, httpRest>>

(* the requests of the specification *)
\* The credentials of tenant 1: a root key, a key that is no root key, a
\* revoked key; key 4 is in no row.
HttpKeys ==
    (1 :> NewKeyRow(1, 1, NoProject, TRUE))
      @@ (2 :> NewKeyRow(2, 1, NoProject, FALSE))
      @@ (3 :> [NewKeyRow(3, 1, NoProject, FALSE) EXCEPT !.revoked_at = 0])

HttpTokens ==
    {ApiKeyToken(k) : k \in 1..4}
      \cup {JwtToken(NoIdentity), JwtToken(Identity(Null, "admin")),
            JwtToken(Identity(1, "admin")), JwtToken(Identity(1, "viewer"))}

HttpAuthorizations == {NoAuthorization, Basic} \cup {Bearer(t) : t \in HttpTokens}

\* What is wrong with the request, if anything: its method, its
\* Content-Length, its body.
Defects == {"none", "method", "too_large", "junk_length", "malformed", "invalid"}

Request(route, authorization, defect, x_request_id) ==
    LET has_body == route \in RouteNames /\ RouteOf(route).body IN
    [NoRequest EXCEPT
       !.route = route,
       !.method_allowed = (defect # "method"),
       !.content_length = CASE defect = "too_large" -> Length(MAX_BODY_SIZE + 1)
                            [] defect = "junk_length" -> JunkLength
                            [] OTHER -> IF has_body THEN Length(2) ELSE NoLength,
       !.authorization = authorization,
       !.body = CASE defect = "malformed" -> "malformed"
                  [] defect = "invalid" -> "invalid"
                  [] OTHER -> IF has_body THEN "json" ELSE "",
       !.x_request_id = x_request_id]

HttpRequests ==
    {Request(route, authorization, defect, x) :
        route \in RouteNames \cup {UnknownPath},
        authorization \in HttpAuthorizations,
        defect \in Defects, x \in {"", "client-1"}}

\* A request arrives.
Receive ==
    /\ http_req.stage = "none"
    /\ \E request \in HttpRequests :
         http_req' = [request EXCEPT !.stage = install_middleware[1]]
    /\ UNCHANGED <<http_resp, limiterVars, credVars, httpRest>>

\* set_rate_limiter(RateLimiter(1, DEFAULT_WINDOW_SECONDS)): a limiter of one
\* request per window, new, and after one request of every token.
HttpLimiter == RateLimiter(1, DEFAULT_WINDOW_SECONDS)
Saturated == [HttpLimiter EXCEPT !._requests = [k \in HttpTokens |-> <<0>>]]

\* One tenant with its keys; the settings are any of the modes, with or
\* without an issuer, with or without metrics; the limiter is new or
\* used up.
InitHttp ==
    /\ orgs = {1}
    /\ api_keys = HttpKeys
    /\ _key_cache = <<>>
    /\ _last_used_updates = <<>>
    /\ last_used_tasks = {}
    /\ req = [r \in ReqIds |-> IdleReq]
    /\ resp = NoResp
    /\ now = 0
    /\ returned204 = {}
    /\ lessons = <<>>
    /\ sharing_config = <<>>
    /\ agent_sharing_config = <<>>
    /\ deny_list_rules = <<>>
    /\ sharing_audit = <<>>
    /\ out = NoOut
    /\ patches = EmptyBag
    /\ vote_ledger = <<>>
    /\ workload = "keys"
    /\ \E mode \in AuthModes, issuer \in BOOLEAN, metrics \in BOOLEAN :
         settings = [auth_mode |-> mode, oidc_issuer |-> issuer,
                     metrics_enabled |-> metrics]
    /\ \E limiter \in {HttpLimiter, Saturated} :
         /\ _rate_limiter = limiter
         /\ admitted = limiter._requests
    /\ rate_out = NoRateOut
    /\ http_req = NoRequest
    /\ http_resp = NoResponse
    /\ InitAux

NextHttp ==
    \/ Receive
    \/ RequestContextMiddleware
    \/ BodySizeLimitMiddleware
    \/ RateLimitMiddleware
    \/ Router
    \/ ReadBody
    \/ SolveDependencies
    \/ Endpoint

SpecHttp == InitHttp /\ [][NextHttp]_vars

(* ------------------------------------------------- a reader and a writer *)
\* A writer and a reader of tenant 1, neither with a project.
WriterPrincipal ==
    [org_id |-> 1, project |-> NoProject, is_root |-> FALSE, key_id |-> 1,
     role |-> "writer"]
ReaderPrincipal ==
    [org_id |-> 1, project |-> NoProject, is_root |-> FALSE, key_id |-> 2,
     role |-> "reader"]

InitReader == InitProject

\* The writer creates lessons; the reader calls every endpoint that reads or
\* writes lessons.
NextReader ==
    \/ \E body \in ProjectCreateBodies :
          CreateLesson(WriterPrincipal, body) /\ DataOnly
    \/ \E body \in ProjectCreateBodies :
          CreateLesson(ReaderPrincipal, body) /\ DataOnly
    \/ \E p \in NamedProjects : SearchLessons(ReaderPrincipal, p) /\ DataOnly
    \/ \E id \in LessonIds : GetLesson(ReaderPrincipal, id) /\ DataOnly
    \/ \E id \in LessonIds, body \in ProjectUpdateBodies :
          UpdateLesson(ReaderPrincipal, id, body) /\ DataOnly
    \/ \E id \in LessonIds : DeleteLesson(ReaderPrincipal, id) /\ DataOnly
    \/ \E p \in NamedProjects : ListLessons(ReaderPrincipal, p) /\ DataOnly
    \/ ExportLessons(ReaderPrincipal) /\ DataOnly
    \/ \E items \in Batches(ProjectItems) :
          ImportLessons(ReaderPrincipal, items) /\ DataOnly
    \/ \E id \in LessonIds, delta \in {-1, 1} :
          RateLesson(ReaderPrincipal, id, delta) /\ DataOnly
    \/ \E confirmation \in {"PURGE", "no"} :
          PurgeSharing(ReaderPrincipal, confirmation) /\ DataOnly

SpecReader == InitReader /\ [][NextReader]_vars

(* -------------------------------------------------------- search_lessons *)
\* Scores are fixed-point numbers: similarity, confidence and vote factor
\* in tenths, the decay in units of 10^-5, a score and min_confidence in
\* units of 10^-8.
MaxRows == 3
MaxLimit == 2
SECONDS_PER_DAY == 86400

\* 1 - (embedding <=> query): the cosine similarity of two embeddings, in
\* tenths (equal, close, opposite).
CosineSimilarity(e, q) ==
    IF e = q THEN 10
    ELSE IF e - q \in {-1, 1} THEN 7
    ELSE 0 - 10

\* exp(-_DECAY_LAMBDA * age_days) for an age of whole days, in units of
\* 10^-5.
Decay(age_days) ==
    CASE age_days <= 0 -> 100000
      [] age_days = 1 -> 99005
      [] OTHER -> 98020

\* GREATEST(1.0 + (upvotes - downvotes) * 0.1, 0.1)
VoteFactor(row) ==
    LET f == 10 + (row.upvotes - row.downvotes) IN
    IF f > 1 THEN f ELSE 1

\* The score column of the query, for a row at time t.
Score(row, q, t) ==
    CosineSimilarity(row.embedding, q) * row.confidence
      * Decay((t - row.updated_at) \div SECONDS_PER_DAY) * VoteFactor(row)

\* round(x, 6) of a score that is not negative: to the nearest multiple of
\* 10^-6, a tie to the even one.
Round6(score) ==
    LET q == score \div 100
        r == score % 100
    IN  IF r > 50 \/ (r = 50 /\ q % 2 = 1) THEN (q + 1) * 100 ELSE q * 100

\* The rows of the WHERE clause: the tenant's, the project's if the key or
\* the body names one, with all tags of the body, not expired, with an
\* embedding.
SearchCandidates(tbl, auth, body, t) ==
    LET project == IF auth.project # NoProject THEN auth.project
                   ELSE body.project
    IN  {i \in DOMAIN tbl :
           /\ tbl[i].org_id = auth.org_id
           /\ project # NoProject => tbl[i].project = project
           /\ body.tags \subseteq tbl[i].tags
           /\ (tbl[i].expires_at = Null \/ tbl[i].expires_at > t)
           /\ tbl[i].embedding # Null}

\* ORDER BY score DESC LIMIT n: every answer the database may give (rows of
\* equal score come in any order).
OrderByScoreLimit(tbl, cands, q, t, n) ==
    LET len == IF Cardinality(cands) < n THEN Cardinality(cands) ELSE n
        sc(i) == Score(tbl[i], q, t)
    IN  {rows \in [1..len -> cands] :
           /\ \A a, b \in 1..len : a < b =>
                 (rows[a] # rows[b] /\ sc(rows[a]) >= sc(rows[b]))
           /\ \A c \in cands :
                 (\A a \in 1..len : rows[a] # c) =>
                    \A a \in 1..len : sc(c) <= sc(rows[a])}

\* if score < body.min_confidence: continue
BelowMin(score, min_confidence) == score < min_confidence

\* The loop over the rows of the query: a row below min_confidence is
\* skipped, the others are reported with round(max(score, 0.0), 6).
RECURSIVE SearchResults(_, _, _, _, _)
SearchResults(tbl, rows, q, t, min_confidence) ==
    IF rows = <<>> THEN <<>>
    ELSE LET score == Score(tbl[Head(rows)], q, t)
             rest == SearchResults(tbl, Tail(rows), q, t, min_confidence)
         IN  IF BelowMin(score, min_confidence) THEN rest
             ELSE <<[id |-> Head(rows),
                     score |-> Round6(IF score > 0 THEN score ELSE 0)]>>
                    \o rest

\* search_lessons with its ranking: the responses it may give.
search_ranked(tbl, auth, body, t) ==
    {SearchResults(tbl, rows, body.embedding, t, body.min_confidence) :
        rows \in OrderByScoreLimit(tbl, SearchCandidates(tbl, auth, body, t),
                                   body.embedding, t, body.limit)}

\* POST /v1/lessons/search
SearchRanked(auth, body) ==
    /\ search_req = NoSearch
    /\ \E response \in search_ranked(lessons, auth, body, now) :
         search_resp' = response
    /\ search_req' = [auth |-> auth, project |-> body.project,
                      tags |-> body.tags, embedding |-> body.embedding,
                      limit |-> body.limit,
                      min_confidence |-> body.min_confidence]
    /\ UNCHANGED <<keyVars, dataVars, workload, patches, vote_ledger, httpVars,
                   resolve_out, oidcVars, rate_calls, exported, moreVars>>

\* The lessons a search may meet: of two tenants and two projects, fresh
\* and a day old, rated up and down, with and without a tag, live and
\* expired, with and without an embedding.
SearchRow(org, project, conf, emb, updated, up, tags, expires) ==
    [org_id |-> org, project |-> project, confidence |-> conf,
     embedding |-> emb, created_at |-> 0, updated_at |-> updated,
     upvotes |-> up, downvotes |-> 0, reputation_score |-> 0, tags |-> tags,
     expires_at |-> expires]

SearchRows ==
    {SearchRow(1, "backend", 5, 2, 0, 1, {"db"}, Null),
     SearchRow(1, "backend", 7, 1, 0, 0, {"db"}, Null),
     SearchRow(1, "backend", 5, 1, SECONDS_PER_DAY, 0, {"db"}, Null),
     SearchRow(1, "frontend", 9, 1, SECONDS_PER_DAY, 1, {}, Null),
     SearchRow(1, "backend", 9, 3, SECONDS_PER_DAY, 0, {"db"}, Null),
     SearchRow(1, "backend", 9, 1, SECONDS_PER_DAY, 0, {"db"}, SECONDS_PER_DAY),
     SearchRow(1, "backend", 9, Null, SECONDS_PER_DAY, 0, {"db"}, Null),
     SearchRow(2, "backend", 9, 1, SECONDS_PER_DAY, 0, {"db"}, Null)}

SearchPrincipals ==
    {[org_id |-> 1, project |-> p, is_root |-> FALSE, key_id |-> 1,
      role |-> "reader"] : p \in {NoProject, "backend"}}

SearchBodies ==
    {[project |-> p, tags |-> tags, embedding |-> 1, limit |-> n,
      min_confidence |-> m] :
        p \in {NoProject, "backend"}, tags \in {{}, {"db"}}, n \in 1..MaxLimit,
        m \in {0, 38116910, 50000000}}

\* Any table of up to MaxRows of these lessons, one day after the oldest.
InitSearch ==
    /\ orgs = OrgIds
    /\ api_keys = <<>>
    /\ _key_cache = <<>>
    /\ _last_used_updates = <<>>
    /\ last_used_tasks = {}
    /\ req = [r \in ReqIds |-> IdleReq]
    /\ resp = NoResp
    /\ now = SECONDS_PER_DAY
    /\ returned204 = {}
    /\ \E n \in 0..MaxRows : lessons \in [1..n -> SearchRows]
    /\ sharing_config = <<>>
    /\ agent_sharing_config = <<>>
    /\ deny_list_rules = <<>>
    /\ sharing_audit = <<>>
    /\ out = NoOut
    /\ workload = "lessons"
    /\ patches = EmptyBag
    /\ vote_ledger = <<>>
    /\ settings = DefaultSettings
    /\ _rate_limiter = RateLimiter(DEFAULT_RATE_LIMIT, DEFAULT_WINDOW_SECONDS)
    /\ admitted = <<>>
    /\ rate_out = NoRateOut
    /\ http_req = NoRequest
    /\ http_resp = NoResponse
    /\ InitAux

NextSearch ==
    \E auth \in SearchPrincipals, body \in SearchBodies : SearchRanked(auth, body)

SpecSearch == InitSearch /\ [][NextSearch]_vars

(* ------------------------------------------- the credential cache in time *)
\* The keys that are presented: one more than the cache holds, and the last
\* of them revoked.
CacheKeys == 1..(CACHE_MAX_SIZE + 1)

\* A token that hashes to no row's key_hash.
UnknownKey == 0

\* The readings of time.monotonic() at which requests arrive: around one and
\* two TTLs after the first.
CacheInstants ==
    {0, 1, CACHE_TTL_SECONDS - 1, CACHE_TTL_SECONDS, CACHE_TTL_SECONDS + 1,
     2 * CACHE_TTL_SECONDS}

\* await _resolve_api_key(raw_key) for the token hashing to h, with no other
\* request between its statements.
ResolveApiKey(h) ==
    \E E \in EvictChoices(_key_cache) :
        LET res == _resolve_api_key(api_keys, _key_cache, _last_used_updates,
                                    E, h, now)
            cached == h \in DOMAIN _key_cache
        IN  /\ _key_cache' = res.cache
            /\ _last_used_updates' = res.updates
            /\ last_used_tasks' = last_used_tasks \cup res.tasks
            /\ resolve_out' =
                  [key |-> h, at |-> now, cached |-> cached,
                   age |-> IF cached THEN now - _key_cache[h].cached_at ELSE 0,
                   lookup |-> res.lookup,
                   evicted |-> IF res.cache = _key_cache THEN {} ELSE E,
                   size |-> Cardinality(DOMAIN _key_cache)]
            /\ UNCHANGED <<orgs, api_keys, req, resp, now, returned204,
                           dataVars, workload, patches, vote_ledger,
                           searchVars, oidcVars, rate_calls, exported,
                           moreVars,
                           httpVars>>

\* time.monotonic() advances to a later instant.
CacheTick ==
    /\ \E t \in CacheInstants : t > now /\ now' = t
    /\ UNCHANGED <<orgs, api_keys, _key_cache, _last_used_updates,
                   last_used_tasks, req, resp, returned204, dataVars, envVars,
                   httpVars>>

\* One tenant with CACHE_MAX_SIZE + 1 keys, the last one revoked in the
\* table; nothing is cached.
InitCache ==
    /\ orgs = {1}
    /\ api_keys = [k \in CacheKeys |->
                     IF k = CACHE_MAX_SIZE + 1
                     THEN [NewKeyRow(k, 1, NoProject, FALSE)
                              EXCEPT !.revoked_at = 0]
                     ELSE NewKeyRow(k, 1, NoProject, k = 1)]
    /\ _key_cache = <<>>
    /\ _last_used_updates = <<>>
    /\ last_used_tasks = {}
    /\ req = [r \in ReqIds |-> IdleReq]
    /\ resp = NoResp
    /\ now = 0
    /\ returned204 = {}
    /\ InitData
    /\ workload = "keys"

NextCache ==
    \/ \E h \in CacheKeys \cup {UnknownKey} : ResolveApiKey(h)
    \/ CacheTick

SpecCache == InitCache /\ [][NextCache]_vars

(* --------------------------------------------- oidc.py, the signing keys *)
_MIN_REFETCH_INTERVAL == 60

\* The key ids a token's header may name.
Kids == {1, 2}

\* What a call of the client may meet: nothing, a provider that cannot be
\* reached, or an exception that is no PyJWKClientError.
Faults == {"none", "unreachable", "error"}

\* The readings of time.monotonic() when the validator is constructed (the
\* reference point of the clock is undefined), and the later readings at
\* which tokens arrive.
OidcBoots == {0, 100}
OidcInstants == {0, 30, 59, 60, 61, 100, 159, 160, 161, 220}

\* self._jwk_client.get_signing_key_from_jwt(token): the key the token's kid
\* names if the cached set has it, PyJWKClientError (Null) if not.
get_signing_key_from_jwt(jwk_set, kid) ==
    IF kid \in jwk_set THEN kid ELSE Null

\* now - self._last_force_fetch < self._MIN_REFETCH_INTERVAL
Throttled(v, t) == t - v._last_force_fetch < _MIN_REFETCH_INTERVAL

\* OidcValidator._get_signing_key
_get_signing_key(v, kid, t, fault) ==
    IF fault = "error"
    THEN [validator |-> v, key |-> Null, forced |-> FALSE]
    ELSE IF get_signing_key_from_jwt(v.jwk_set, kid) # Null
    THEN [validator |-> v, key |-> kid, forced |-> FALSE]
    ELSE IF Throttled(v, t)
    THEN [validator |-> v, key |-> Null, forced |-> FALSE]
    ELSE LET fetched == IF fault = "unreachable" THEN v.jwk_set ELSE v.idp
             w == [v EXCEPT !._last_force_fetch = t, !.jwk_set = fetched]
         IN  [validator |-> w,
              key |-> IF fault = "unreachable" THEN Null
                      ELSE get_signing_key_from_jwt(fetched, kid),
              forced |-> TRUE]

oidcRest == <<orgs, api_keys, _key_cache, _last_used_updates, last_used_tasks,
              req, resp, returned204, dataVars, workload, patches,
              vote_ledger, searchVars, resolve_out, rate_calls, exported,
              moreVars,
              httpVars>>

\* A token naming kid is handed to _get_signing_key.
GetSigningKey(kid, fault) ==
    LET res == _get_signing_key(validator, kid, now, fault) IN
    /\ validator' = res.validator
    /\ jwks_out' =
          [kid |-> kid, at |-> now,
           missing |-> fault # "error" /\ kid \notin validator.jwk_set,
           forced |-> res.forced, key |-> res.key,
           refreshes |-> IF res.forced THEN Append(jwks_out.refreshes, now)
                         ELSE jwks_out.refreshes]
    /\ UNCHANGED <<oidcRest, now>>

\* The client reads the key set on its first use (cache_keys=True).
ClientFetch ==
    /\ validator.jwk_set = {}
    /\ validator' = [validator EXCEPT !.jwk_set = validator.idp]
    /\ UNCHANGED <<oidcRest, now, jwks_out>>

\* The provider rotates its keys.
RotateKeys(kids) ==
    /\ kids # validator.idp
    /\ validator' = [validator EXCEPT !.idp = kids]
    /\ UNCHANGED <<oidcRest, now, jwks_out>>

\* time.monotonic() advances to a later instant.
OidcTick ==
    /\ \E t \in OidcInstants : t > now /\ now' = t
    /\ UNCHANGED <<oidcRest, oidcVars>>

InitOidc ==
    /\ orgs = {}
    /\ api_keys = <<>>
    /\ _key_cache = <<>>
    /\ _last_used_updates = <<>>
    /\ last_used_tasks = {}
    /\ req = [r \in ReqIds |-> IdleReq]
    /\ resp = NoResp
    /\ now \in OidcBoots
    /\ returned204 = {}
    /\ InitData
    /\ workload = "keys"

NextOidc ==
    \/ \E kid \in Kids, fault \in Faults : GetSigningKey(kid, fault)
    \/ ClientFetch
    \/ \E kids \in (SUBSET Kids) \ {{}} : RotateKeys(kids)
    \/ OidcTick

SpecOidc == InitOidc /\ [][NextOidc]_vars

(* ------------------------------------------- export, then import elsewhere *)
\* An admin of tenant A, who exports, and an admin of tenant B, who imports.
TransferSource ==
    [org_id |-> 1, project |-> NoProject, is_root |-> TRUE, key_id |-> 1,
     role |-> "admin"]
TransferTarget ==
    [org_id |-> 2, project |-> NoProject, is_root |-> TRUE, key_id |-> 2,
     role |-> "admin"]

\* The lessons A creates, with an embedding and without, and A's votes.
TransferCreateBodies ==
    {[project |-> NoProject, confidence |-> 5, embedding |-> e] :
        e \in {1, Null}}
TransferUpdateBodies ==
    {[confidence |-> Null, upvotes |-> StrVote("+1"), downvotes |-> NoVote]}

\* LessonExportItem(...) of a row of the export's SELECT.
LessonExportItem(r) ==
    [id |-> r.id, project |-> r.row.project, confidence |-> r.row.confidence,
     embedding |-> r.row.embedding, created_at |-> r.row.created_at,
     updated_at |-> r.row.updated_at, upvotes |-> r.row.upvotes,
     downvotes |-> r.row.downvotes]

\* LessonImportItem parsed from an exported item: the fields the model does
\* not declare (created_at, updated_at) are ignored.
LessonImportItem(e) ==
    [id |-> e.id, project |-> e.project, confidence |-> e.confidence,
     embedding |-> e.embedding, upvotes |-> e.upvotes,
     downvotes |-> e.downvotes]

\* embedding: List[float] = Field(..., min_length=384, max_length=384)
ImportItemValid(item) == item.embedding # Null

\* The rows of a set in some order, as a sequence.
Sequenced(S) ==
    {q \in [1..Cardinality(S) -> S] : \A i, j \in DOMAIN q : i # j => q[i] # q[j]}

transferRest == <<procVars, now, workload, patches, vote_ledger, searchVars,
                  resolve_out, oidcVars, rate_calls, moreVars, httpVars>>

\* A client of A calls export_lessons and keeps the items of the response.
ExportAndKeep(auth) ==
    LET res == export_lessons(lessons, auth) IN
    /\ res.rows # {}
    /\ LessonStep("export_lessons", auth, 0, res)
    /\ \E q \in Sequenced(res.rows) :
          exported' = [i \in DOMAIN q |-> LessonExportItem(q[i])]
    /\ UNCHANGED transferRest

\* A client of B, which has no lessons, posts the kept items to
\* import_lessons: an item the request model refuses makes the request a
\* 422, or else the handler runs.
ImportKept(auth) ==
    /\ exported # <<>>
    /\ \A i \in DOMAIN lessons : lessons[i].org_id # auth.org_id
    /\ LET items == [i \in DOMAIN exported |-> LessonImportItem(exported[i])] IN
       IF \E i \in DOMAIN items : ~ImportItemValid(items[i])
       THEN LessonStep("import_lessons", auth, 0,
                       LessonResult(lessons, 422, "validation_error", {}, 0))
       ELSE LessonStep("import_lessons", auth, 0,
                       import_lessons(lessons, auth, items, now))
    /\ UNCHANGED <<transferRest, exported>>

InitTransfer == InitTenant /\ workload = "lessons"

\* A fills its tenant and votes, time passes, A exports, A may delete, and B
\* imports what A exported.
NextTransfer ==
    \/ \E body \in TransferCreateBodies :
          CreateLesson(TransferSource, body) /\ DataOnly
    \/ \E id \in LessonIds, body \in TransferUpdateBodies :
          UpdateLesson(TransferSource, id, body) /\ DataOnly
    \/ \E id \in LessonIds : DeleteLesson(TransferSource, id) /\ DataOnly
    \/ Tick /\ UNCHANGED <<dataVars, envVars, httpVars>>
    \/ ExportAndKeep(TransferSource)
    \/ ImportKept(TransferTarget)

SpecTransfer == InitTransfer /\ [][NextTransfer]_vars

(* ------------------------------------------- the timestamps of a lesson *)
\* The imports that may be between reading the clock and their transaction.
MaxImporting == 2

StampCreateBodies == {[project |-> NoProject, confidence |-> 5, embedding |-> 1]}
StampUpdateBodies ==
    {[confidence |-> 9, upvotes |-> NoVote, downvotes |-> NoVote],
     [confidence |-> Null, upvotes |-> StrVote("+1"), downvotes |-> NoVote]}
StampItems ==
    {[id |-> i, project |-> NoProject, confidence |-> 7, embedding |-> 1,
      upvotes |-> 1, downvotes |-> 0] : i \in LessonIds}

stampRest == <<procVars, now, workload, patches, vote_ledger, searchVars,
               resolve_out, oidcVars, rate_calls, exported, purging,
               last_purge, jwt_out, clientVars, agent_put, httpVars>>

\* import_lessons up to `pool = await get_pool()`: the handler has read
\* datetime.now(timezone.utc) and waits for a connection.
ImportReadClock(auth, items) ==
    /\ Cardinality(importing) < MaxImporting
    /\ importing' = importing \cup {[auth |-> auth, items |-> items, now |-> now]}
    /\ UNCHANGED <<api_keys, dataVars, stampRest>>

\* import_lessons from the transaction on: the rows are written with the
\* time the handler read.
ImportTransaction(call) ==
    /\ call \in importing
    /\ importing' = importing \ {call}
    /\ LessonStep("import_lessons", call.auth, 0,
                  import_lessons(lessons, call.auth, call.items, call.now))
    /\ UNCHANGED stampRest

InitStamps == InitProject

\* A writer creates, patches, votes, rates and imports while time passes;
\* no lesson is deleted.
NextStamps ==
    \/ \E body \in StampCreateBodies : CreateLesson(WriterPrincipal, body) /\ DataOnly
    \/ \E id \in LessonIds, body \in StampUpdateBodies :
          UpdateLesson(WriterPrincipal, id, body) /\ DataOnly
    \/ \E id \in LessonIds : RateLesson(WriterPrincipal, id, 1) /\ DataOnly
    \/ \E items \in Batches(StampItems) : ImportReadClock(WriterPrincipal, items)
    \/ \E call \in importing : ImportTransaction(call)
    \/ Tick /\ UNCHANGED <<dataVars, envVars, httpVars>>

SpecStamps == InitStamps /\ [][NextStamps]_vars

(* ---------------------------------------------- the counters of a lesson *)
CountCreateBodies == {[project |-> NoProject, confidence |-> 5, embedding |-> 1]}
\* The deltas of a PATCH: "-1" on upvotes, "-1" on downvotes.
CountMinusBodies ==
    {[confidence |-> Null, upvotes |-> StrVote("-1"), downvotes |-> NoVote],
     [confidence |-> Null, upvotes |-> NoVote, downvotes |-> StrVote("-1")]}
\* The other bodies of a PATCH: another field, "+1", an absolute value.
CountOtherBodies ==
    {[confidence |-> 9, upvotes |-> NoVote, downvotes |-> NoVote],
     [confidence |-> Null, upvotes |-> StrVote("+1"), downvotes |-> NoVote],
     [confidence |-> Null, upvotes |-> NoVote, downvotes |-> StrVote("+1")],
     [confidence |-> Null, upvotes |-> IntVote(0), downvotes |-> NoVote]}
CountItems ==
    {[id |-> i, project |-> NoProject, confidence |-> 7, embedding |-> 1,
      upvotes |-> 0, downvotes |-> 0] : i \in LessonIds}
CountDeltas == {1, 0 - 1}

CountsCreate ==
    \E body \in CountCreateBodies : CreateLesson(VotePrincipal, body) /\ DataOnly

CountsPatch(id, body) == UpdateLesson(VotePrincipal, id, body) /\ DataOnly

CountsRate(id, delta) == RateLesson(VotePrincipal, id, delta) /\ DataOnly

CountsImport(items) == ImportLessons(VotePrincipal, items) /\ DataOnly

InitCounts == InitProject

\* A writer creates, patches, votes, rates and imports lessons of its
\* tenant, one request after the other.
NextCounts ==
    \/ CountsCreate
    \/ \E id \in LessonIds, body \in CountMinusBodies \cup CountOtherBodies :
          CountsPatch(id, body)
    \/ \E id \in LessonIds, delta \in CountDeltas : CountsRate(id, delta)
    \/ \E items \in Batches(CountItems) : CountsImport(items)

SpecCounts == InitCounts /\ [][NextCounts]_vars

(* ------------------------------------------------- purge, step by step *)
\* The two credentials of tenant 1 that purge, the first of which also
\* fills the tenant's tables, and a credential of tenant 2.
PurgeOwner ==
    [org_id |-> 1, project |-> NoProject, is_root |-> TRUE, key_id |-> 1,
     role |-> "admin"]
PurgeOther ==
    [org_id |-> 2, project |-> NoProject, is_root |-> TRUE, key_id |-> 2,
     role |-> "admin"]
PurgePrincipals ==
    {PurgeOwner,
     [org_id |-> 1, project |-> NoProject, is_root |-> FALSE, key_id |-> 3,
      role |-> "writer"]}

purgeRest == <<procVars, now, workload, patches, vote_ledger, searchVars,
               resolve_out, oidcVars, rate_calls, exported, importing, jwt_out,
               clientVars, agent_put, httpVars>>

\* purge_sharing up to the end of its transaction: the confirmation was
\* "PURGE", the tenant's rows are deleted and the deletion is committed.
PurgeTransaction(auth) ==
    /\ \A call \in purging : call.auth # auth
    /\ LET db == purge_transaction(SharingDb, auth.org_id) IN
       /\ lessons' = db.lessons
       /\ sharing_audit' = db.sharing_audit
       /\ deny_list_rules' = db.deny_list_rules
       /\ agent_sharing_config' = db.agent_sharing_config
       /\ sharing_config' = db.sharing_config
    /\ purging' = purging \cup
          {[auth |-> auth,
            deleted_lessons |-> Cardinality(DOMAIN Own(lessons, auth.org_id))]}
    /\ last_purge' = [last_purge EXCEPT ![auth.org_id] = auth.key_id]
    /\ UNCHANGED <<api_keys, out, purgeRest>>

\* purge_sharing after its transaction: _record_audit(auth.org_id, "purge",
\* auth.key_id) and the answer.
PurgeRecordAudit(call) ==
    /\ call \in purging
    /\ AuditIds \ DOMAIN sharing_audit # {}
    /\ sharing_audit' = _record_audit(sharing_audit, call.auth.org_id, "purge",
                                      call.auth.key_id)
    /\ out' = [op |-> "purge_sharing", auth |-> call.auth, id |-> 0,
               status |-> 200, detail |-> "purged",
               count |-> call.deleted_lessons]
    /\ purging' = purging \ {call}
    /\ UNCHANGED <<api_keys, lessons, sharing_config, agent_sharing_config,
                   deny_list_rules, last_purge, purgeRest>>

\* The request ends between the commit and _record_audit: the task is
\* cancelled, or get_pool() or pool.acquire() raises.
PurgeInterrupted(call) ==
    /\ call \in purging
    /\ out' = [op |-> "purge_sharing", auth |-> call.auth, id |-> 0,
               status |-> 500, detail |-> "Internal server error", count |-> 0]
    /\ purging' = purging \ {call}
    /\ UNCHANGED <<api_keys, lessons, sharing_config, agent_sharing_config,
                   deny_list_rules, sharing_audit, last_purge, purgeRest>>

\* Each tenant has its credential, and the tables are empty.
InitPurge ==
    /\ orgs = OrgIds
    /\ api_keys = [k \in {PurgeOwner.key_id, PurgeOther.key_id} |->
                      NewKeyRow(k, k, NoProject, TRUE)]
    /\ _key_cache = <<>>
    /\ _last_used_updates = <<>>
    /\ last_used_tasks = {}
    /\ req = [r \in ReqIds |-> IdleReq]
    /\ resp = NoResp
    /\ now = 0
    /\ returned204 = {}
    /\ InitData
    /\ workload = "sharing"

\* Tenant 1 fills its tables and purges them, a purge in two steps, while
\* tenant 2 creates lessons.
NextPurge ==
    \/ \E auth \in {PurgeOwner, PurgeOther}, body \in TenantCreateBodies :
          CreateLesson(auth, body) /\ DataOnly
    \/ \E id \in LessonIds : RateLesson(PurgeOwner, id, 1) /\ DataOnly
    \/ UpdateSharingConfig(PurgeOwner, [enabled |-> "true"]) /\ DataOnly
    \/ \E g \in AgentIds, body \in TenantAgentBodies :
          UpsertAgentConfig(PurgeOwner, g, body) /\ DataOnly
    \/ CreateDenyRule(PurgeOwner, "secret") /\ DataOnly
    \/ \E auth \in PurgePrincipals : PurgeSharing(auth, "purge") /\ DataOnly
    \/ \E auth \in PurgePrincipals : PurgeTransaction(auth)
    \/ \E call \in purging : PurgeRecordAudit(call)
    \/ \E call \in purging : PurgeInterrupted(call)

SpecPurge == InitPurge /\ [][NextPurge]_vars

(* ------------------------------------------------ revocation over time *)
\* The tenant has its two root keys.
InitRevoke ==
    /\ orgs = {1}
    /\ api_keys = [k \in KeyIds |-> NewKeyRow(k, 1, NoProject, TRUE)]
    /\ _key_cache = <<>>
    /\ _last_used_updates = <<>>
    /\ last_used_tasks = {}
    /\ req = [r \in ReqIds |-> IdleReq]
    /\ resp = NoResp
    /\ now = 0
    /\ returned204 = {}
    /\ InitData
    /\ workload = "keys"

\* A request that reads, or that revokes a key, arrives.
StartKeyRequest(r) ==
    /\ Start(r)
    /\ req'[r].op \in {"get", "revoke_key"}

\* Requests that read and requests that revoke run interleaved while time
\* passes.
NextRevoke ==
    \/ \E r \in ReqIds : StartKeyRequest(r) /\ KeysOnly
    \/ \E r \in ReqIds : ResolveCheck(r) /\ KeysOnly
    \/ \E r \in ReqIds : ResolveLookup(r) /\ KeysOnly
    \/ \E r \in ReqIds : ResolveCache(r) /\ KeysOnly
    \/ \E r \in ReqIds : ReadHandler(r) /\ KeysOnly
    \/ \E r \in ReqIds : RevokeSelect(r) /\ KeysOnly
    \/ \E r \in ReqIds : RevokeCount(r) /\ KeysOnly
    \/ \E r \in ReqIds : RevokeUpdate(r) /\ KeysOnly
    \/ \E r \in ReqIds : RevokeInvalidate(r) /\ KeysOnly
    \/ Tick /\ UNCHANGED <<dataVars, envVars, httpVars>>

SpecRevoke == InitRevoke /\ [][NextRevoke]_vars

(* ------------------------------------------- the last_used_at debounce *)
\* The readings of time.monotonic() when the worker starts (the reference
\* point of the clock is undefined), and the later readings at which
\* requests arrive and tasks run.
LastUsedBoots == {0, 100}
LastUsedInstants == {0, 1, 59, 60, 61, 100, 101, 160, 161}

\* time.monotonic() advances to a later instant.
LastUsedTick ==
    /\ \E t \in LastUsedInstants : t > now /\ now' = t
    /\ UNCHANGED <<orgs, api_keys, _key_cache, _last_used_updates,
                   last_used_tasks, req, resp, returned204, dataVars, envVars,
                   httpVars>>

\* One tenant with the keys of InitCache, the last one revoked; the worker
\* starts at some reading of its clock.
InitLastUsed ==
    /\ orgs = {1}
    /\ api_keys = [k \in CacheKeys |->
                     IF k = CACHE_MAX_SIZE + 1
                     THEN [NewKeyRow(k, 1, NoProject, FALSE)
                              EXCEPT !.revoked_at = 0]
                     ELSE NewKeyRow(k, 1, NoProject, k = 1)]
    /\ _key_cache = <<>>
    /\ _last_used_updates = <<>>
    /\ last_used_tasks = {}
    /\ req = [r \in ReqIds |-> IdleReq]
    /\ resp = NoResp
    /\ now \in LastUsedBoots
    /\ returned204 = {}
    /\ InitData
    /\ workload = "keys"

\* Requests resolve their keys, the scheduled _do_update tasks run when the
\* loop gets to them, and time passes.
NextLastUsed ==
    \/ \E h \in CacheKeys : ResolveApiKey(h)
    \/ \E k \in CacheKeys : DoUpdate(k) /\ KeysOnly
    \/ LastUsedTick

SpecLastUsed == InitLastUsed /\ [][NextLastUsed]_vars

(* ------------------------------------------------- oidc.py: validate *)
\* What is wrong with a token, if anything: it is no JWT, its signature,
\* its exp, its iss, its aud.
JwtDefects == {"none", "malformed", "signature", "expired", "issuer", "audience"}
JwtRoleClaims ==
    {JwtNoClaim, "reader", "writer", "admin", "viewer", UnhashableRole}
JwtOrgClaims == {Null, 1, 2}

\* The tokens: the kid of the header, the defect, whether the payload has
\* "sub", its org claim (Null: none) and its role claim.  The tokens that
\* validate refuses all carry the same org and role claims.
JwtTokens ==
    {token \in [kid : Kids, defect : JwtDefects, sub : BOOLEAN,
                org : JwtOrgClaims, role : JwtRoleClaims] :
        (token.defect # "none" \/ ~token.sub)
        => (token.org = 1 /\ token.role = "admin")}

\* The subclasses of jwt.InvalidTokenError that jwt.decode raises, and every
\* Exception the body of validate can raise.
InvalidTokenErrors ==
    {"InvalidSignatureError", "ExpiredSignatureError", "InvalidIssuerError",
     "InvalidAudienceError"}
Exceptions == InvalidTokenErrors \cup {"KeyError"}

\* jwt.decode(token, key, algorithms, issuer, audience, options): the
\* exception it raises, "" if it returns the payload.  verify_aud is on iff
\* an audience is configured.
decode(token, audience) ==
    CASE token.defect = "signature" -> "InvalidSignatureError"
      [] token.defect = "expired" -> "ExpiredSignatureError"
      [] token.defect = "issuer" -> "InvalidIssuerError"
      [] token.defect = "audience" /\ audience -> "InvalidAudienceError"
      [] OTHER -> ""

\* The body of validate under except clauses that catch `caught`: the
\* signing key, the decoding, the identity built from the payload
\* (payload["sub"] raises KeyError; the role defaults to "viewer").
Validation(v, token, t, fault, audience, caught) ==
    LET got == _get_signing_key(v, token.kid, t,
                                IF token.defect = "malformed" THEN "error"
                                ELSE fault)
        exc == IF got.key = Null THEN ""
               ELSE IF decode(token, audience) # "" THEN decode(token, audience)
               ELSE IF ~token.sub THEN "KeyError"
               ELSE ""
    IN  [validator |-> got.validator,
         raised |-> IF exc \in caught THEN "" ELSE exc,
         identity |-> IF got.key = Null \/ exc # "" THEN NoIdentity
                      ELSE [valid |-> TRUE, org_id |-> token.org,
                            role |-> IF token.role = JwtNoClaim THEN "viewer"
                                     ELSE token.role,
                            sub |-> 1]]

\* A validate without its last clause, `except Exception`.
validate_token_errors_only(v, token, t, fault, audience) ==
    Validation(v, token, t, fault, audience, InvalidTokenErrors)

\* OidcValidator.validate: except jwt.ExpiredSignatureError, except
\* jwt.InvalidTokenError, except Exception, each returning None.
validate(v, token, t, fault, audience) ==
    Validation(v, token, t, fault, audience, Exceptions)

\* The settings of a server that accepts JWTs.
JwtSettings ==
    [DefaultSettings EXCEPT !.auth_mode = "dual", !.oidc_issuer = TRUE]

jwtRest == <<orgs, api_keys, _key_cache, _last_used_updates, last_used_tasks,
             req, resp, returned204, dataVars, workload, patches,
             vote_ledger, searchVars, resolve_out, rate_calls, exported,
             importing, purging, last_purge, clientVars, agent_put,
             httpVars>>

\* A request presents the token to _resolve_jwt; an exception that leaves
\* validate or _resolve_jwt is answered 500 by the general handler.
ResolveJwt(token, fault, audience) ==
    LET val == validate(validator, token, now, fault, audience)
        res == _resolve_jwt(JwtToken(val.identity), JwtSettings, _key_cache,
                            _last_used_updates)
    IN  /\ validator' = val.validator
        /\ jwt_out' =
              [asked |-> TRUE, token |-> token, fault |-> fault,
               audience |-> audience,
               cached |-> token.kid \in validator.jwk_set,
               returned |-> val.identity, raised |-> val.raised,
               ok |-> val.raised = "" /\ res.ok,
               status |-> IF val.raised # "" THEN 500 ELSE res.status,
               error |-> IF val.raised # "" THEN val.raised ELSE res.error,
               ctx |-> IF val.raised # "" THEN NoCtx ELSE res.ctx]
        /\ UNCHANGED <<jwtRest, now, jwks_out>>

InitJwt == InitOidc

\* Requests present tokens of every kind while the provider is reachable or
\* not, with an audience configured or not; the client reads the key set on
\* its first use.
NextJwt ==
    \/ \E token \in JwtTokens, fault \in Faults, audience \in BOOLEAN :
          ResolveJwt(token, fault, audience)
    \/ ClientFetch

SpecJwt == InitJwt /\ [][NextJwt]_vars

(* ------------------------------------------ client.py: _request_with_retry *)
\* _RETRY_BACKOFFS = [0.5, 1.0, 2.0], in half seconds.
_RETRY_BACKOFFS == <<1, 2, 4>>

\* A set of retryable statuses that holds 429 as well.
_RETRYABLE_STATUS_and_429 == {429, 500, 502, 503, 504}

_RETRYABLE_STATUS == {500, 502, 503, 504}

\* except (httpx.ConnectError, httpx.TimeoutException, httpx.ConnectTimeout)
RetriedExceptions == {"ConnectError", "TimeoutException", "ConnectTimeout"}

\* What self._http.request does: it returns a response with a status or
\* raises an exception.
HttpOutcome(status, exc) == [status |-> status, exc |-> exc]

HttpOutcomes ==
    {HttpOutcome(s, "") : s \in {200, 404, 429, 500, 501, 502, 503, 504}}
      \cup {HttpOutcome(0, e) : e \in {"ConnectError", "TimeoutException",
                                       "ReadError"}}

\* resp.raise_for_status(): HTTPStatusError for a 4xx or 5xx status.
raise_for_status(status) ==
    IF status \in 400..599 THEN "HTTPStatusError" ELSE ""

\* One pass of the loop `for attempt in range(1 + len(_RETRY_BACKOFFS))` with
\* the outcome of its request: sleep and continue, return the response, or
\* raise.
_request_with_retry(attempt, outcome) ==
    IF outcome.exc = ""
    THEN IF /\ outcome.status \in _RETRYABLE_STATUS
            /\ attempt < Len(_RETRY_BACKOFFS)
         THEN [next |-> "sleep", backoff |-> _RETRY_BACKOFFS[attempt + 1],
               raised |-> ""]
         ELSE IF raise_for_status(outcome.status) # ""
         THEN [next |-> "raise", backoff |-> 0,
               raised |-> raise_for_status(outcome.status)]
         ELSE [next |-> "return", backoff |-> 0, raised |-> ""]
    ELSE IF outcome.exc \in RetriedExceptions
    THEN IF attempt < Len(_RETRY_BACKOFFS)
         THEN [next |-> "sleep", backoff |-> _RETRY_BACKOFFS[attempt + 1],
               raised |-> ""]
         ELSE [next |-> "raise", backoff |-> 0, raised |-> outcome.exc]
    ELSE [next |-> "raise", backoff |-> 0, raised |-> outcome.exc]

\* _do_save and recall around _request_with_retry: the id or the lessons of
\* the response, None or the empty list after any exception.
ClientResult(op, raised) ==
    IF op = "save" THEN (IF raised = "" THEN "id" ELSE "None")
    ELSE (IF raised = "" THEN "lessons" ELSE "[]")

clientRest == <<keyVars, dataVars, workload, patches, vote_ledger, searchVars,
                resolve_out, oidcVars, rate_calls, exported, importing,
                purging, last_purge, jwt_out, agent_put, httpVars>>

\* save (not batched) or recall is called.
RetryCall(op) ==
    /\ retry.state \in {"idle", "done"}
    /\ retry' = [NoRetry EXCEPT !.op = op, !.state = "request"]
    /\ UNCHANGED <<batching, voters, clientRest>>

\* await self._http.request(...) comes back and the loop goes on to its next
\* await or leaves the function.
RetryAttempt(outcome) ==
    /\ retry.state = "request"
    /\ LET step == _request_with_retry(retry.attempt, outcome) IN
       retry' =
         IF step.next = "sleep"
         THEN [retry EXCEPT !.state = "sleep",
                            !.outcomes = Append(@, outcome),
                            !.slept = Append(@, step.backoff)]
         ELSE [retry EXCEPT !.state = "done",
                            !.outcomes = Append(@, outcome),
                            !.raised = step.raised,
                            !.result = ClientResult(retry.op, step.raised)]
    /\ UNCHANGED <<batching, voters, clientRest>>

\* await asyncio.sleep(...) ends: `continue`. When the range is used up the
\* function raises after the loop.
RetryWake ==
    /\ retry.state = "sleep"
    /\ retry' =
         IF retry.attempt + 1 < 1 + Len(_RETRY_BACKOFFS)
         THEN [retry EXCEPT !.state = "request", !.attempt = @ + 1]
         ELSE LET last == retry.outcomes[Len(retry.outcomes)]
                  exc == IF last.exc # "" THEN last.exc ELSE "RuntimeError"
              IN  [retry EXCEPT !.state = "done", !.raised = exc,
                                !.result = ClientResult(retry.op, exc)]
    /\ UNCHANGED <<batching, voters, clientRest>>

InitRetry == InitProject

NextRetry ==
    \/ \E op \in {"save", "recall"} : RetryCall(op)
    \/ \E outcome \in HttpOutcomes : RetryAttempt(outcome)
    \/ RetryWake

\* The request comes back (the client has a timeout) and the sleep ends.
SpecRetry == InitRetry /\ [][NextRetry]_vars /\ WF_vars(NextRetry)

(* ------------------------------------------------ client.py: batched saves *)
\* LoreClient(batch=True, batch_size=BatchSize); save is called for up to
\* MaxPayloads payloads, which are numbered in the order of their append.
BatchSize == 3
MaxPayloads == 4

\* _do_save(payload) is called: the payload goes into a request unless the
\* HTTP client has been closed (then the request raises and _do_save returns
\* None).
_do_save(b, payload) ==
    IF b.closed THEN b ELSE [b EXCEPT !.sent = Append(@, payload)]

\* _flush_batch up to its first await, run by task `who`: nothing when the
\* buffer is empty, else the buffer is copied and cleared and the first
\* payload is handed to _do_save.
_flush_batch(b, who) ==
    IF b.buffer = <<>> THEN b
    ELSE _do_save([b EXCEPT ![who].items = b.buffer, ![who].pc = "flush",
                            !.buffer = <<>>],
                  Head(b.buffer))

\* An await of _do_save in the loop of _flush_batch comes back in task `who`:
\* the next payload is handed over, or the loop is over.
FlushNext(b, who) ==
    LET rest == Tail(b[who].items) IN
    IF rest = <<>> THEN [b EXCEPT ![who].items = <<>>, ![who].pc = "flushed"]
    ELSE _do_save([b EXCEPT ![who].items = rest], Head(rest))

\* A task leaves `async with self._batch_lock`.
Release(b, who) ==
    [b EXCEPT !.lock = "free",
              ![who].pc = IF who = "flusher" THEN "sleep" ELSE "idle",
              ![who].items = <<>>]

\* __aenter__: the lock is made and the flusher task created.
BatchEnter ==
    /\ ~batching.entered
    /\ batching' = [batching EXCEPT !.entered = TRUE, !.flusher.pc = "sleep"]
    /\ UNCHANGED <<retry, voters, clientRest>>

\* save in batch mode, from the call to its first await: it waits for the
\* lock, or takes it, appends the payload and, at batch_size, starts
\* _flush_batch; without a flush it returns None at once.
BatchSave ==
    /\ batching.entered
    /\ batching.close.pc = "idle"
    /\ batching.save.pc = "idle"
    /\ batching.accepted < MaxPayloads
    /\ batching' =
         IF batching.lock # "free"
         THEN [batching EXCEPT !.save.pc = "lock"]
         ELSE LET payload == batching.accepted + 1
                  b == [batching EXCEPT !.lock = "save",
                                        !.accepted = payload,
                                        !.buffer = Append(@, payload)]
                  flushed == IF Len(b.buffer) >= BatchSize
                             THEN _flush_batch(b, "save") ELSE b
              IN  IF flushed.save.pc = "flush" THEN flushed
                  ELSE Release(flushed, "save")
    /\ UNCHANGED <<retry, voters, clientRest>>

\* The save that waited gets the lock.
BatchSaveLocked ==
    /\ batching.save.pc = "lock"
    /\ batching.lock = "free"
    /\ LET payload == batching.accepted + 1
           b == [batching EXCEPT !.lock = "save",
                                 !.accepted = payload,
                                 !.buffer = Append(@, payload)]
           flushed == IF Len(b.buffer) >= BatchSize
                      THEN _flush_batch(b, "save") ELSE b
       IN  batching' = IF flushed.save.pc = "flush" THEN flushed
                       ELSE Release(flushed, "save")
    /\ UNCHANGED <<retry, voters, clientRest>>

\* A _do_save of the flush that save runs comes back.
BatchSaveFlush ==
    /\ batching.save.pc = "flush"
    /\ LET b == FlushNext(batching, "save") IN
       batching' = IF b.save.pc = "flushed" THEN Release(b, "save") ELSE b
    /\ UNCHANGED <<retry, voters, clientRest>>

\* _batch_flusher: the sleep of batch_interval ends with payloads in the
\* buffer and the flusher asks for the lock, or the flusher that waited gets
\* it; with the lock it runs _flush_batch.
FlusherWake ==
    /\ \/ batching.flusher.pc = "sleep" /\ batching.buffer # <<>>
       \/ batching.flusher.pc = "lock" /\ batching.lock = "free"
    /\ ~batching.flusher.cancelled
    /\ batching' =
         IF batching.lock # "free"
         THEN [batching EXCEPT !.flusher.pc = "lock"]
         ELSE LET b == _flush_batch([batching EXCEPT !.lock = "flusher"],
                                    "flusher")
              IN  IF b.flusher.pc = "flush" THEN b ELSE Release(b, "flusher")
    /\ UNCHANGED <<retry, voters, clientRest>>

\* A _do_save of the flush that the flusher runs comes back.
FlusherFlush ==
    /\ batching.flusher.pc = "flush"
    /\ ~batching.flusher.cancelled
    /\ LET b == FlushNext(batching, "flusher") IN
       batching' = IF b.flusher.pc = "flushed" THEN Release(b, "flusher")
                   ELSE b
    /\ UNCHANGED <<retry, voters, clientRest>>

\* The CancelledError of close arrives at the await where the flusher is:
\* in the sleep, in the wait for the lock, or in a _do_save of _flush_batch,
\* whose `except Exception` does not catch it, so that the loop over the
\* copied payloads is left and the lock released. _batch_flusher returns.
FlusherCancelled ==
    /\ batching.flusher.pc \in {"sleep", "lock", "flush"}
    /\ batching.flusher.cancelled
    /\ batching' = [batching EXCEPT
                      !.flusher.pc = "ended",
                      !.flusher.items = <<>>,
                      !.lock = IF batching.flusher.pc = "flush" THEN "free"
                               ELSE @]
    /\ UNCHANGED <<retry, voters, clientRest>>

\* close up to `await self._batch_task`: the flusher is cancelled.
BatchClose ==
    /\ batching.entered
    /\ batching.close.pc = "idle"
    /\ batching' = [batching EXCEPT !.close.pc = "await",
                                    !.flusher.cancelled = TRUE]
    /\ UNCHANGED <<retry, voters, clientRest>>

\* close after the flusher has ended: `if self._batch_buffer: await
\* self._flush_batch()` (without the lock), then aclose.
BatchCloseFlush ==
    /\ batching.close.pc = "await"
    /\ batching.flusher.pc = "ended"
    /\ LET b == _flush_batch(batching, "close") IN
       batching' = IF b.close.pc = "flush" THEN b
                   ELSE [b EXCEPT !.close.pc = "done", !.closed = TRUE,
                                  !.at_close = b.accepted]
    /\ UNCHANGED <<retry, voters, clientRest>>

\* A _do_save of the flush that close runs comes back; after the last one
\* the HTTP client is closed and close returns.
BatchCloseNext ==
    /\ batching.close.pc = "flush"
    /\ LET b == FlushNext(batching, "close") IN
       batching' = IF b.close.pc = "flushed"
                   THEN [b EXCEPT !.close.pc = "done", !.closed = TRUE,
                                  !.at_close = b.accepted]
                   ELSE b
    /\ UNCHANGED <<retry, voters, clientRest>>

InitBatch == InitProject

NextBatch ==
    \/ BatchEnter
    \/ BatchSave
    \/ BatchSaveLocked
    \/ BatchSaveFlush
    \/ FlusherWake
    \/ FlusherFlush
    \/ FlusherCancelled
    \/ BatchClose
    \/ BatchCloseFlush
    \/ BatchCloseNext

SpecBatch == InitBatch /\ [][NextBatch]_vars

(* ------------------------------------------- imports beside another tenant *)
\* Two tenants create lessons and import items under ids of their choice,
\* their own, the other tenant's and free ones.
InitImport ==
    /\ InitTenant
    /\ workload = "lessons"

NextImport ==
    \/ \E auth \in TenantPrincipals, body \in TenantCreateBodies :
          CreateLesson(auth, body) /\ DataOnly
    \/ \E auth \in TenantPrincipals, items \in Batches(TenantItems) :
          ImportReadClock(auth, items)
    \/ \E call \in importing : ImportTransaction(call)

SpecImport == InitImport /\ [][NextImport]_vars

(* ------------------------------------- lore.py: votes through a remote store *)
\* _response_to_lesson: the Lesson a caller holds after RemoteStore.get (of
\* the fields of the model: confidence and the two counters).
_response_to_lesson(r) ==
    [confidence |-> r.row.confidence, upvotes |-> r.row.upvotes,
     downvotes |-> r.row.downvotes]

\* Lore.upvote / Lore.downvote on the Lesson that was read:
\* `lesson.upvotes += 1` or `lesson.downvotes += 1`.
Voted(lesson, op) ==
    IF op = "upvote" THEN [lesson EXCEPT !.upvotes = @ + 1]
    ELSE [lesson EXCEPT !.downvotes = @ + 1]

\* RemoteStore.update: the body of the PATCH carries the counters of the
\* Lesson as integers.
UpdatePayload(lesson) ==
    [confidence |-> lesson.confidence, upvotes |-> IntVote(lesson.upvotes),
     downvotes |-> IntVote(lesson.downvotes)]

upvoteRest == <<procVars, now, workload, patches, vote_ledger, searchVars,
                resolve_out, oidcVars, rate_calls, exported, importing,
                purging, last_purge, jwt_out, retry, batching, agent_put,
                httpVars>>

\* Caller c calls Lore.upvote(id) or Lore.downvote(id): self._store.get(id)
\* is answered; without a lesson LessonNotFoundError is raised, else the
\* caller holds the lesson with its counter raised by one.
VoteGet(c, op, id) ==
    /\ c \notin DOMAIN voters
    /\ LET res == get_lesson(lessons, VotePrincipal, id) IN
       /\ LessonStep("get_lesson", VotePrincipal, id, res)
       /\ voters' = Insert(voters, c,
            IF res.status = 404
            THEN [pc |-> "raised", op |-> op, id |-> id,
                  lesson |-> [confidence |-> 0, upvotes |-> 0, downvotes |-> 0]]
            ELSE [pc |-> "read", op |-> op, id |-> id,
                  lesson |-> Voted(_response_to_lesson(
                                      CHOOSE r \in res.rows : TRUE), op)])
    /\ UNCHANGED upvoteRest

\* self._store.update(lesson): the PATCH of the caller is answered.
VoteUpdate(c) ==
    /\ c \in DOMAIN voters
    /\ voters[c].pc = "read"
    /\ UpdateLesson(VotePrincipal, voters[c].id, UpdatePayload(voters[c].lesson))
    /\ voters' = [voters EXCEPT ![c].pc = "done"]
    /\ UNCHANGED upvoteRest

InitUpvote == InitProject

\* Lessons are published and two callers vote on them, each once.
NextUpvote ==
    \/ \E body \in StampCreateBodies : CreateLesson(VotePrincipal, body) /\ DataOnly
    \/ \E c \in ReqIds, op \in {"upvote", "downvote"}, id \in LessonIds :
          VoteGet(c, op, id)
    \/ \E c \in ReqIds : VoteUpdate(c)

SpecUpvote == InitUpvote /\ [][NextUpvote]_vars

(* ------------------------------------------------ agent configs, put again *)
\* AgentSharingConfigUpdate: each field given or omitted.
AgentPutBodies ==
    {[enabled |-> e, categories |-> c] :
        e \in {"true", "false", "none"}, c \in {"none", "[]", "[\"ops\"]"}}

agentRest == <<procVars, now, workload, patches, vote_ledger, searchVars,
               resolve_out, oidcVars, rate_calls, exported, importing,
               purging, last_purge, jwt_out, clientVars, httpVars>>

\* PUT /v1/sharing/agents/{agent_id}
PutAgentConfig(auth, agent_id, body) ==
    LET k == <<auth.org_id, agent_id>>
        had == k \in DOMAIN agent_sharing_config
    IN  /\ UpsertAgentConfig(auth, agent_id, body)
        /\ agent_put' =
             [asked |-> TRUE, org_id |-> auth.org_id, agent_id |-> agent_id,
              body |-> body, had |-> had,
              before |-> IF had
                         THEN [enabled |-> agent_sharing_config[k].enabled,
                               categories |-> agent_sharing_config[k].categories]
                         ELSE NoAgentPut.before]
        /\ UNCHANGED agentRest

InitAgents ==
    /\ InitTenant
    /\ workload = "sharing"

NextAgents ==
    \E auth \in TenantPrincipals, g \in AgentIds, body \in AgentPutBodies :
        PutAgentConfig(auth, g, body)

SpecAgents == InitAgents /\ [][NextAgents]_vars

(* ------------------------------------------------------------ claims *)

\* C1: in every reachable state every tenant has at least one credential
\* with is_root = true and revoked_at = null, under any interleaving of key
\* creations and revocations.
C1_ActiveRootPerTenant ==
    \A o \in orgs : ActiveRoots(api_keys, o) # {}

\* C2: once DELETE /v1/keys/{K.id} has removed K's cached row and answered
\* 204, a request presenting K that starts afterwards is answered
\* 401 key_revoked.
C2_RevokedKeyRejected ==
    resp.after204 => (resp.status = 401 /\ resp.detail = "key_revoked")

\* C8: at most one tenant row ever exists, also when calls of
\* POST /v1/org/init run concurrently.
C8_AtMostOneTenant ==
    Cardinality(orgs) <= 1

\* The answer of a handler: what the client sees of its result.
Answer(res) ==
    [status |-> res.status, detail |-> res.detail, rows |-> res.rows,
     count |-> res.count]

\* A result res of a call by auth, and the result res0 of the same call on the
\* caller's own rows alone: the two are answered alike and every row of the
\* answer is the caller's.
SameAnswer(auth, res, res0) ==
    /\ Answer(res) = Answer(res0)
    /\ \A r \in res.rows : r.row.org_id = auth.org_id

\* The table after a call by auth holds every row of the other tenants as
\* the table before it.
OthersKept(auth, before, after) ==
    Others(after, auth.org_id) = Others(before, auth.org_id)

LessonCallIsolated(auth, res, res0) ==
    /\ SameAnswer(auth, res, res0)
    /\ OthersKept(auth, lessons, res.lessons)

TableCallIsolated(auth, tbl, res, res0) ==
    /\ SameAnswer(auth, res, res0)
    /\ OthersKept(auth, tbl, res.tbl)

LessonsIsolated(a) ==
    LET mine == Own(lessons, a.org_id)
        audit0 == Own(sharing_audit, a.org_id)
    IN
    /\ \A body \in TenantCreateBodies, id \in LessonIds \ DOMAIN lessons :
          LessonCallIsolated(a, create_lesson(lessons, a, body, id, now),
                                create_lesson(mine, a, body, id, now))
    /\ LessonCallIsolated(a, search_lessons(lessons, a, NoProject),
                             search_lessons(mine, a, NoProject))
    /\ LessonCallIsolated(a, list_lessons(lessons, a, NoProject),
                             list_lessons(mine, a, NoProject))
    /\ LessonCallIsolated(a, export_lessons(lessons, a), export_lessons(mine, a))
    /\ \A id \in LessonIds :
          /\ LessonCallIsolated(a, get_lesson(lessons, a, id),
                                   get_lesson(mine, a, id))
          /\ LessonCallIsolated(a, delete_lesson(lessons, a, id),
                                   delete_lesson(mine, a, id))
          /\ \A body \in TenantUpdateBodies :
                LessonCallIsolated(a, update_lesson(lessons, a, id, body, now),
                                      update_lesson(mine, a, id, body, now))
          /\ AuditIds \ DOMAIN sharing_audit # {} =>
                LET res == rate_lesson(lessons, sharing_audit, a, id, 1, now)
                    res0 == rate_lesson(mine, audit0, a, id, 1, now)
                IN  /\ LessonCallIsolated(a, res, res0)
                    /\ OthersKept(a, sharing_audit, res.sharing_audit)
    /\ \A items \in Batches(TenantItems) :
          LessonCallIsolated(a, import_lessons(lessons, a, items, now),
                                import_lessons(mine, a, items, now))
    /\ SameAnswer(a, get_stats(lessons, sharing_audit, a),
                     get_stats(mine, audit0, a))

SharingIsolated(a) ==
    LET o == a.org_id IN
    /\ TableCallIsolated(a, sharing_config,
                         get_sharing_config(sharing_config, a),
                         get_sharing_config(Own(sharing_config, o), a))
    /\ \A body \in TenantConfigBodies :
          TableCallIsolated(a, sharing_config,
                            update_sharing_config(sharing_config, a, body),
                            update_sharing_config(Own(sharing_config, o), a, body))
    /\ TableCallIsolated(a, agent_sharing_config,
                         list_agent_configs(agent_sharing_config, a),
                         list_agent_configs(Own(agent_sharing_config, o), a))
    /\ \A g \in AgentIds, body \in TenantAgentBodies :
          TableCallIsolated(a, agent_sharing_config,
              upsert_agent_config(agent_sharing_config, a, g, body),
              upsert_agent_config(Own(agent_sharing_config, o), a, g, body))
    /\ TableCallIsolated(a, deny_list_rules,
                         list_deny_rules(deny_list_rules, a),
                         list_deny_rules(Own(deny_list_rules, o), a))
    /\ \A id \in RuleIds \ DOMAIN deny_list_rules :
          TableCallIsolated(a, deny_list_rules,
                            create_deny_rule(deny_list_rules, a, id, "secret"),
                            create_deny_rule(Own(deny_list_rules, o), a, id, "secret"))
    /\ \A id \in RuleIds :
          TableCallIsolated(a, deny_list_rules,
                            delete_deny_rule(deny_list_rules, a, id),
                            delete_deny_rule(Own(deny_list_rules, o), a, id))
    /\ TableCallIsolated(a, sharing_audit,
                         list_audit_events(sharing_audit, a),
                         list_audit_events(Own(sharing_audit, o), a))
    /\ AuditIds \ DOMAIN Others(sharing_audit, o) # {} =>
          LET res == purge_sharing(SharingDb, a, "PURGE")
              res0 == purge_sharing([t \in DOMAIN SharingDb |-> Own(SharingDb[t], o)],
                                    a, "PURGE")
          IN  /\ SameAnswer(a, res, res0)
              /\ \A t \in DOMAIN SharingDb : OthersKept(a, SharingDb[t], res.db[t])

KeysIsolated(a) ==
    LET mine == Own(api_keys, a.org_id) IN
    /\ \A body \in TenantKeyBodies, id \in KeyIds \ DOMAIN api_keys :
          TableCallIsolated(a, api_keys, create_key(api_keys, a, body, id),
                                         create_key(mine, a, body, id))
    /\ TableCallIsolated(a, api_keys, list_keys(api_keys, a), list_keys(mine, a))
    /\ \A id \in KeyIds :
          TableCallIsolated(a, api_keys, revoke_key(api_keys, a, id, now),
                                         revoke_key(mine, a, id, now))

\* C3: whatever a principal of a tenant calls, in every reachable state of
\* the tables: the answer is the one the same call gets when the tables hold
\* the caller's rows alone (so an id of another tenant is answered like an id
\* that does not exist, and no row of another tenant is returned), and every
\* row of every other tenant is in the tables afterwards as before (so an
\* import item with another tenant's id leaves that row unchanged).
C3_TenantIsolation ==
    \A a \in TenantPrincipals :
        LessonsIsolated(a) /\ SharingIsolated(a) /\ KeysIsolated(a)

\* Every lesson id is taken by a lesson of the other tenant when a tenant's
\* import, which names one of them, is answered 200; the lessons are as
\* their owner left them.
C3_Witness_ForeignImport ==
    /\ out.op = "import_lessons"
    /\ out.status = 200
    /\ DOMAIN lessons = LessonIds
    /\ \A i \in LessonIds : /\ lessons[i].org_id # out.auth.org_id
                            /\ lessons[i].confidence # 7

\* C4: whenever "+1" patches of a counter of a lesson have been answered 200,
\* however they and other requests interleaved, the stored counter is the
\* value it had when it was last written as a whole plus the number of those
\* patches.
C4_NoLostIncrement ==
    \A i \in DOMAIN lessons : \A f \in VoteFields :
        lessons[i][f] = vote_ledger[i][f].start + vote_ledger[i][f].n

\* Two "+1" patches of the same counter were in flight together and both
\* have been answered 200; no patch is in flight any more.
C4_Witness_TwoConcurrent ==
    /\ patches = EmptyBag
    /\ \E i \in DOMAIN lessons :
          /\ vote_ledger[i]["upvotes"].n = 2
          /\ vote_ledger[i]["upvotes"].overlap

\* C5: for a credential with a project, in every reachable state of the
\* table: the lesson a create stores carries the credential's project
\* whatever the body names; get, list, search and export return only rows of
\* that project; and a get of a lesson of another project is answered 404,
\* as it is when the lesson does not exist.
C5_ProjectScopedReads ==
    \A a \in ScopedPrincipals :
        /\ \A body \in ProjectCreateBodies, id \in LessonIds \ DOMAIN lessons :
              create_lesson(lessons, a, body, id, now).lessons[id].project
                  = a.project
        /\ \A id \in LessonIds, p \in NamedProjects :
              \A r \in get_lesson(lessons, a, id).rows
                       \cup list_lessons(lessons, a, p).rows
                       \cup search_lessons(lessons, a, p).rows
                       \cup export_lessons(lessons, a).rows :
                 r.row.project = a.project
        /\ \A id \in DOMAIN lessons :
              lessons[id].project # a.project =>
                 /\ get_lesson(lessons, a, id).status = 404
                 /\ Answer(get_lesson(lessons, a, id))
                      = Answer(get_lesson(Remove(lessons, {id}), a, id))

\* A credential with a project asked for an existing lesson of another
\* project and was answered 404.
C5_Witness_OtherProject404 ==
    /\ out.op = "get_lesson"
    /\ out.auth.project # NoProject
    /\ out.id \in DOMAIN lessons
    /\ lessons[out.id].project # out.auth.project
    /\ out.status = 404

\* C6: a request made with a credential that has a project leaves every
\* lesson of another project in the table with every field unchanged.
C6_ProjectWritesConfined ==
    [][\A i \in DOMAIN lessons :
          (out'.auth.project # NoProject /\ lessons[i].project # out'.auth.project)
             => (i \in DOMAIN lessons' /\ lessons'[i] = lessons[i])]_vars

\* C7: for every key and every instant t, the requests admitted for the key
\* at times in [t, t + W] are at most N, for a limiter of limit N and
\* window W.
C7_WindowNeverExceeded ==
    \A k \in DOMAIN admitted : \A t \in 0..(MaxClock * TicksPerSecond) :
        Cardinality({i \in DOMAIN admitted[k] :
                        /\ t <= admitted[k][i]
                        /\ admitted[k][i] <=
                              t + _rate_limiter.window_seconds * TicksPerSecond})
          <= _rate_limiter.max_requests

\* A key was refused at its limit, and it has been admitted more often than
\* the limit in all: its window has moved on in between.
C7_Witness_RefusedAndReadmitted ==
    /\ ~rate_out.allowed
    /\ _rate_limiter.max_requests = MaxAdmit
    /\ Len(admitted[rate_out.key]) > MaxAdmit

\* C9: every response with a status outside 2xx has a JSON body with exactly
\* the keys error and message, and its error is one of the stable codes of
\* the error table.
C9_ErrorEnvelope ==
    LET StableCodes ==
          {"missing_api_key", "invalid_api_key", "key_revoked",
           "invalid_token", "oidc_not_configured", "api_key_not_allowed",
           "missing_org_claim", "insufficient_role", "not_found", "conflict",
           "request_too_large", "malformed_json", "validation_error",
           "rate_limit_exceeded", "internal_error"}
    IN  (http_req.stage = "done" /\ http_resp.status \notin 200..299) =>
            /\ http_resp.content = {"error", "message"}
            /\ http_resp.error \in StableCodes

\* C10: once get_auth_context has run on a request, the outcome respects the
\* mode: without a "Bearer " header the request fails with missing_api_key;
\* a lore_sk_ token in mode oidc-required fails with api_key_not_allowed; any
\* other token in mode api-key-only fails with 401 and the validator never
\* saw it; in mode dual a lore_sk_ token goes to the API-key resolver only
\* and any other token to the JWT resolver only; and no request is
\* authenticated through a resolver its mode or its prefix excludes.
C10_ModeGatesResolution ==
    http_req.resolved =>
      LET header == http_req.authorization
          bearer == header.scheme = "Bearer "
          prefixed == header.token.prefix = "lore_sk_"
          mode == settings.auth_mode
      IN  /\ ~bearer =>
                /\ http_resp.status = 401
                /\ http_resp.error = "missing_api_key"
                /\ http_req.path = "none"
          /\ (bearer /\ prefixed /\ mode = "oidc-required") =>
                /\ http_resp.status = 401
                /\ http_resp.error = "api_key_not_allowed"
                /\ http_req.path = "none"
          /\ (bearer /\ ~prefixed /\ mode = "api-key-only") =>
                /\ http_resp.status = 401
                /\ http_req.path = "none"
                /\ ~http_req.idp
          /\ (bearer /\ mode = "dual") =>
                http_req.path = IF prefixed THEN "api_key" ELSE "jwt"
          /\ http_req.auth_error = "" =>
                /\ http_req.path \in {"api_key", "jwt"}
                /\ http_req.path = "api_key" =>
                      (prefixed /\ mode # "oidc-required")
                /\ http_req.path = "jwt" =>
                      (~prefixed /\ mode # "api-key-only")

\* In mode api-key-only, with an issuer configured, a JWT the validator
\* would accept as an admin of tenant 1 has been refused with 401 and the
\* validator was not asked.
C10_Witness_JwtRefusedUnseen ==
    /\ http_req.resolved
    /\ settings.auth_mode = "api-key-only"
    /\ settings.oidc_issuer
    /\ http_req.authorization = Bearer(JwtToken(Identity(1, "admin")))
    /\ http_resp.status = 401
    /\ http_resp.error = "invalid_api_key"
    /\ ~http_req.idp

\* C11: a valid request to create, list or revoke keys whose principal has a
\* role other than admin is answered 403 with the error code
\* insufficient_role and changes no key (and a request that is answered 2xx
\* has an admin as its principal).
C11_KeysAdminOnly ==
    (/\ http_req.stage = "done"
     /\ http_req.route \in {r.name : r \in KeysRoutes}
     /\ http_req.resolved
     /\ http_req.auth_error = ""
     /\ http_req.body # "invalid") =>
        IF http_req.auth.role = "admin"
        THEN TRUE
        ELSE /\ http_resp.status \notin 200..299
             /\ http_resp.status = 403
             /\ http_resp.error = "insufficient_role"
             /\ api_keys = HttpKeys

\* C12: no request of a principal with role reader changes the set of
\* lessons or the content of a lesson.
C12_ReaderChangesNothing ==
    [][out'.auth.role = "reader" => lessons' = lessons]_vars

\* The lessons of a search response are those of the reference result: the
\* candidates in order of score, those of a score of min_confidence or
\* more, cut at limit.
C13_LessonsAsReference ==
    search_req # NoSearch =>
      LET body == search_req
          cands == SearchCandidates(lessons, search_req.auth, body, now)
          sc(i) == Score(lessons[i], body.embedding, now)
          kept == {i \in cands : sc(i) >= body.min_confidence}
          ids == [k \in DOMAIN search_resp |-> search_resp[k].id]
          n == Len(search_resp)
      IN  /\ n = (IF Cardinality(kept) < body.limit THEN Cardinality(kept)
                  ELSE body.limit)
          /\ \A a \in 1..n : ids[a] \in kept
          /\ \A a, b \in 1..n : a < b => (ids[a] # ids[b] /\ sc(ids[a]) >= sc(ids[b]))
          /\ \A c \in kept : (\A a \in 1..n : ids[a] # c) =>
                \A a \in 1..n : sc(c) <= sc(ids[a])

\* C13: every search response equals the reference result (eligible lessons
\* by score descending, those of score >= min_confidence, cut at limit): it
\* is sorted by score descending, has at most limit entries, every returned
\* score is >= min_confidence, and no eligible lesson that scores higher
\* than a returned one is left out.
C13_SearchEqualsReference ==
    /\ C13_LessonsAsReference
    /\ search_req # NoSearch =>
         /\ Len(search_resp) <= search_req.limit
         /\ \A a, b \in DOMAIN search_resp :
               a < b => search_resp[a].score >= search_resp[b].score
         /\ \A a \in DOMAIN search_resp :
               search_resp[a].score >= search_req.min_confidence

C16_LastForcedBefore ==
    LET prev == IF jwks_out.forced
                THEN SubSeq(jwks_out.refreshes, 1, Len(jwks_out.refreshes) - 1)
                ELSE jwks_out.refreshes
    IN  IF prev = <<>> THEN Null ELSE prev[Len(prev)]

\* Any two forced refreshes of the validator are at least 60 s apart.
C16_RefreshesApart ==
    \A i, j \in 1..Len(jwks_out.refreshes) :
        i < j => jwks_out.refreshes[j] - jwks_out.refreshes[i] >= 60

\* C16: a token whose kid is missing from the cached key set forces one
\* refresh if no forced refresh happened in the 60 s before it, and is
\* declined without a refresh otherwise; any two forced refreshes are at
\* least 60 s apart.
C16_OneRefreshPerMinute ==
    /\ C16_RefreshesApart
    /\ jwks_out.missing =>
          LET last == C16_LastForcedBefore IN
          IF last # Null /\ jwks_out.at - last < 60
          THEN ~jwks_out.forced /\ jwks_out.key = Null
          ELSE jwks_out.forced

\* C17: a refusal reports retry_after >= 1 and is not entered in the key's
\* timestamps (they are the key's latest admissions and nothing else); and
\* when a key's call was refused with retry_after r at time t0 and the key's
\* next call comes r seconds after t0 or later, that call is admitted.
C17_RefusalNotCountedRetryHonoured ==
    \A k \in DOMAIN rate_calls :
        LET call == rate_calls[k]
            timestamps == TimestampsOf(_rate_limiter, k)
            n == Len(admitted[k])
        IN  /\ ~call.allowed => call.retry_after >= 1
            /\ Len(timestamps) <= n
            /\ timestamps = SubSeq(admitted[k], n - Len(timestamps) + 1, n)
            /\ call.waited => call.allowed

\* A key was refused half a second after its only request, with a wait of
\* int(0.5) + 1 seconds for a window of one second, and its next call, that
\* much later, was admitted.
C17_Witness_AdmittedAfterWait ==
    \E k \in DOMAIN rate_calls :
        /\ rate_calls[k].allowed
        /\ rate_calls[k].waited
        /\ _rate_limiter.window_seconds = 1
        /\ admitted[k] = <<1, 4>>
        /\ now = 4

\* C18: a request whose Content-Length is over the cap is answered 413 and
\* the limiter is as it was (no call of is_allowed, no timestamp entered); a
\* request within the cap that the limiter refuses is answered 429 whatever
\* its credential, and nothing of credential resolution has happened: no
\* resolver ran, the cache, the debounce table, the pending last_used_at
\* writes and the table api_keys are as they were.
C18_CapThenLimiterThenResolution ==
    http_req.stage = "done" =>
        LET over == /\ http_req.content_length.present
                    /\ http_req.content_length.numeric
                    /\ http_req.content_length.n > MAX_BODY_SIZE
        IN  /\ over <=> http_resp.status = 413
            /\ http_resp.status = 413 =>
                  /\ rate_out = NoRateOut
                  /\ _rate_limiter \in {HttpLimiter, Saturated}
                  /\ admitted = _rate_limiter._requests
            /\ (~over /\ http_req.authorization.scheme = "Bearer "
                      /\ _rate_limiter = Saturated)
                  => http_resp.status = 429
            /\ http_resp.status = 429 =>
                  /\ ~rate_out.allowed
                  /\ ~http_req.resolved
                  /\ http_req.path = "none"
                  /\ ~http_req.idp
                  /\ _key_cache = <<>>
                  /\ _last_used_updates = <<>>
                  /\ last_used_tasks = {}
                  /\ api_keys = HttpKeys

\* A request with an active key's token and a body over the cap meets a
\* limiter that has no room for the token: it is answered 413.
C18_Witness_TooLargeOverLimit ==
    /\ http_req.stage = "done"
    /\ http_resp.status = 413
    /\ http_req.authorization = Bearer(ApiKeyToken(1))
    /\ _rate_limiter = Saturated

\* A request with a revoked key's token is refused by the limiter.
C18_Witness_RevokedOverLimit ==
    /\ http_req.stage = "done"
    /\ http_resp.status = 429
    /\ http_req.authorization = Bearer(ApiKeyToken(3))

\* Every response other than the 500 of general_exception_handler carries
\* the header X-Request-Id, with the client's value or a new uuid4.
C19_StampedUnlessUnhandled ==
    (http_req.stage = "done" /\ http_resp.status # 500) =>
        /\ "X-Request-Id" \in http_resp.headers
        /\ http_resp.x_request_id =
              IF http_req.x_request_id # "" THEN http_req.x_request_id
              ELSE "uuid4"

\* C19: every response carries the header X-Request-Id, the 413, the 429,
\* the authentication errors and the 500 after an unhandled exception
\* included; its value is the request's X-Request-Id if the client sent one
\* and a new uuid4 if not.
C19_RequestIdOnEveryResponse ==
    http_req.stage = "done" =>
        /\ "X-Request-Id" \in http_resp.headers
        /\ http_resp.x_request_id =
              IF http_req.x_request_id # "" THEN http_req.x_request_id
              ELSE "uuid4"

\* The lessons of tenant B after its import.
C20_Imported == {i \in DOMAIN lessons : lessons[i].org_id = TransferTarget.org_id}

\* After an import that the handler ran, every exported item whose id no
\* other tenant's row holds is a lesson of B with the item's project,
\* confidence, embedding and counters, and B has no other lessons.
C20_ContentTransferred ==
    (/\ out.op = "import_lessons"
     /\ out.auth = TransferTarget
     /\ out.status = 200) =>
        /\ \A i \in C20_Imported : \E k \in DOMAIN exported : exported[k].id = i
        /\ \A k \in DOMAIN exported :
              LET e == exported[k] IN
              (e.id \notin DOMAIN lessons
                 \/ lessons[e.id].org_id = TransferTarget.org_id) =>
                   /\ e.id \in C20_Imported
                   /\ lessons[e.id].project = e.project
                   /\ lessons[e.id].confidence = e.confidence
                   /\ lessons[e.id].embedding = e.embedding
                   /\ lessons[e.id].upvotes = e.upvotes
                   /\ lessons[e.id].downvotes = e.downvotes

\* C20: after tenant B, which had no lessons, has imported the items of an
\* export of tenant A, B's lessons are the exported ones: the same ids, and
\* for each id the same embedding, upvotes, downvotes, created_at and
\* updated_at.
C20_ExportImportRoundTrip ==
    (out.op = "import_lessons" /\ out.auth = TransferTarget) =>
        /\ out.status = 200
        /\ C20_Imported = {exported[k].id : k \in DOMAIN exported}
        /\ \A k \in DOMAIN exported :
              LET e == exported[k] IN
              /\ e.id \in DOMAIN lessons
              /\ lessons[e.id].embedding = e.embedding
              /\ lessons[e.id].upvotes = e.upvotes
              /\ lessons[e.id].downvotes = e.downvotes
              /\ lessons[e.id].created_at = e.created_at
              /\ lessons[e.id].updated_at = e.updated_at

\* No lesson's updated_at decreases in the step.
C21_NotDecreased ==
    \A i \in (DOMAIN lessons) \cap (DOMAIN lessons') :
        lessons'[i].updated_at >= lessons[i].updated_at

\* While every import in flight has read the clock at the current instant,
\* no mutation decreases a lesson's updated_at.
C21_MonotoneWithoutStaleImport ==
    [][(\A call \in importing : call.now = now) => C21_NotDecreased]_vars

\* C21: every lesson has updated_at >= created_at in every state, and no
\* step (field update, vote, rate, import upsert) decreases a lesson's
\* updated_at, whatever the interleaving of the requests.
C21_UpdatedAtMonotone ==
    /\ [](\A i \in DOMAIN lessons : lessons[i].updated_at >= lessons[i].created_at)
    /\ [][C21_NotDecreased]_vars

\* C22: in every reachable state every lesson has upvotes >= 0,
\* downvotes >= 0 and reputation >= 0, for any sequence of create, update,
\* vote, rate and import requests.
C22_CountersNonNegative ==
    \A i \in DOMAIN lessons :
        /\ lessons[i].upvotes >= 0
        /\ lessons[i].downvotes >= 0
        /\ lessons[i].reputation_score >= 0

\* A step that leaves every count of every lesson at or above its value.
C23_NotDecreased ==
    \A i \in (DOMAIN lessons) \cap (DOMAIN lessons') :
        /\ lessons'[i].upvotes >= lessons[i].upvotes
        /\ lessons'[i].downvotes >= lessons[i].downvotes

\* A rate call, and a PATCH of another field or of "+1", leave each count
\* at or above its previous value.
C23_RateAndDeltasKeep ==
    [][out'.op = "rate_lesson"
       \/ (\E id \in LessonIds, body \in CountOtherBodies :
              /\ body.upvotes.kind # "int"
              /\ CountsPatch(id, body))
       => C23_NotDecreased]_vars

\* C23: a lesson's upvotes and downvotes decrease only by a PATCH with the
\* delta "-1"; every other step (a PATCH of other fields or of an absolute
\* vote value, an import upsert, a rate call) leaves each count greater than
\* or equal to its previous value.
C23_CountsDecreaseOnlyByDelta ==
    [][C23_NotDecreased
       \/ \E id \in LessonIds, body \in CountMinusBodies : CountsPatch(id, body)]_vars

\* The rows of org o are gone from the five tables, and the rows of the
\* other orgs, the orgs and the credentials are what they were.
C24_Purged(o) ==
    /\ Own(lessons', o) = <<>>
    /\ Own(sharing_audit', o) = <<>>
    /\ Own(deny_list_rules', o) = <<>>
    /\ Own(agent_sharing_config', o) = <<>>
    /\ Own(sharing_config', o) = <<>>
    /\ Others(lessons', o) = Others(lessons, o)
    /\ Others(sharing_audit', o) = Others(sharing_audit, o)
    /\ Others(deny_list_rules', o) = Others(deny_list_rules, o)
    /\ Others(agent_sharing_config', o) = Others(agent_sharing_config, o)
    /\ Others(sharing_config', o) = Others(sharing_config, o)
    /\ UNCHANGED <<orgs, api_keys>>

\* C24: the transaction of a purge confirmed with "PURGE" removes in one
\* step every lesson, deny rule, agent config, the sharing config and the
\* earlier audit events of the caller's tenant and leaves the tenant row, the
\* credentials and every row of every other tenant unchanged; a purge with
\* another confirmation is answered 400 and changes nothing.
C24_PurgeFrame ==
    [][/\ \A call \in purging' \ purging : C24_Purged(call.auth.org_id)
       /\ (out'.op = "purge_sharing" /\ out'.status = 400 /\ purging' = purging)
          => UNCHANGED <<orgs, api_keys, lessons, sharing_audit, deny_list_rules,
                         agent_sharing_config, sharing_config>>]_vars

\* A purge of tenant 1 that deleted lessons has committed while tenant 2
\* has lessons and the credentials exist.
C24_Witness_PurgedBesideOther ==
    /\ \E call \in purging : call.deleted_lessons > 0
    /\ \E i \in DOMAIN lessons : lessons[i].org_id = PurgeOther.org_id
    /\ DOMAIN api_keys # {}

\* A tenant's log holds a purge event that names the credential.
C25_Recorded(o, key_id) ==
    \E a \in DOMAIN sharing_audit :
        /\ sharing_audit[a].org_id = o
        /\ sharing_audit[a].event_type = "purge"
        /\ sharing_audit[a].initiated_by = key_id

\* C25: once a purge has committed and no purge of the tenant is still
\* running, the tenant's audit log holds a purge event that names the
\* credential of the purge that committed last, also when a request ended
\* right after its commit and when two purges of the tenant overlap.
C25_CommittedPurgeRecorded ==
    \A o \in OrgIds :
        (last_purge[o] # 0 /\ \A call \in purging : call.auth.org_id # o)
        => C25_Recorded(o, last_purge[o])

\* The audit events the step adds.
C26_Recorded == {a \in DOMAIN sharing_audit' : a \notin DOMAIN sharing_audit}

\* The lessons whose reputation the step changes.
C26_Rated ==
    {i \in (DOMAIN lessons) \cap (DOMAIN lessons') :
        lessons'[i].reputation_score # lessons[i].reputation_score}

\* C26: a rate request changes the lesson's reputation, by +1 or by -1 as
\* its delta says, if and only if it records exactly one audit event of type
\* rate for that lesson and caller; a rate request for a lesson that does not
\* exist is answered 404 and changes neither a reputation nor the audit log.
C26_RateRecordedWithReputation ==
    [][out'.op = "rate_lesson" =>
         /\ \A a \in DOMAIN sharing_audit :
               a \in DOMAIN sharing_audit' /\ sharing_audit'[a] = sharing_audit[a]
         /\ (C26_Rated # {}) <=> (C26_Recorded # {})
         /\ \A i \in C26_Rated :
               /\ i = out'.id
               /\ out'.status = 200
               /\ lessons'[i].reputation_score - lessons[i].reputation_score
                     \in CountDeltas
               /\ \E a \in C26_Recorded :
                     /\ C26_Recorded = {a}
                     /\ sharing_audit'[a] =
                           [org_id |-> out'.auth.org_id, event_type |-> "rate",
                            lesson_id |-> i, initiated_by |-> out'.auth.key_id]
         /\ out'.id \notin DOMAIN lessons =>
               /\ out'.status = 404
               /\ lessons' = lessons
               /\ sharing_audit' = sharing_audit]_vars

\* A rating of a missing lesson was answered 404 after a rating was recorded.
C26_Witness_RatedThenMissing ==
    /\ out.op = "rate_lesson"
    /\ out.status = 404
    /\ \E a \in DOMAIN sharing_audit :
          /\ sharing_audit[a].event_type = "rate"
          /\ sharing_audit[a].lesson_id \in DOMAIN lessons
          /\ lessons[sharing_audit[a].lesson_id].reputation_score # 0

\* No step deletes a credential row or changes a revoked_at that is set.
C27_RowsAndStampsKept ==
    \A k \in DOMAIN api_keys :
        /\ k \in DOMAIN api_keys'
        /\ api_keys[k].revoked_at # Null
           => api_keys'[k].revoked_at = api_keys[k].revoked_at

\* A revocation whose SELECT finds the key revoked is answered 400.
C27_SecondRevokeRefused ==
    \A r \in ReqIds :
        (/\ req[r].pc = "handler"
         /\ req[r].op = "revoke_key"
         /\ req[r].target \in DOMAIN api_keys
         /\ api_keys[req[r].target].revoked_at # Null
         /\ req'[r] # req[r])
        => /\ req'[r].pc = "idle"
           /\ resp'.status \in {400, 403}
           /\ UNCHANGED api_keys

\* A request whose resolution starts when its key's row is revoked is not
\* authenticated.
C27_RevokedNotAuthenticated ==
    \A r \in ReqIds :
        (/\ req[r].pc = "resolve"
         /\ req[r].token \in DOMAIN api_keys
         /\ api_keys[req[r].token].revoked_at # Null)
        => req'[r].pc # "handler"

\* Revoking a revoked key is refused, and no step clears or changes a
\* revoked_at or deletes a credential row.
C27_RevokedOnce ==
    [][C27_RowsAndStampsKept /\ C27_SecondRevokeRefused]_vars

\* C27: revocation is permanent and happens once: revoking an already revoked
\* key is refused and leaves its revoked_at unchanged, no step clears
\* revoked_at or deletes a credential row, and a request that presents a key
\* whose row has a non-null revoked_at is never authenticated.
C27_RevocationPermanent ==
    [][/\ C27_RowsAndStampsKept
       /\ C27_SecondRevokeRefused
       /\ C27_RevokedNotAuthenticated]_vars

\* The step schedules a last_used_at write for key k.
C28_Scheduled(k) ==
    /\ k \in DOMAIN _last_used_updates'
    /\ _last_used_updates'[k] = now
    /\ k \in last_used_tasks'
    /\ (k \in DOMAIN _last_used_updates => _last_used_updates[k] # now)

\* The step resolves key k from the database to a credential.
C28_ResolvedFromDatabase(k) ==
    /\ _key_cache' # _key_cache
    /\ resolve_out'.key = k
    /\ resolve_out'.lookup
    /\ api_keys[k].revoked_at = Null

\* No write for key k was scheduled in the 60 s before now.
C28_NoneScheduledLately(k) ==
    \/ k \notin DOMAIN _last_used_updates
    \/ now - _last_used_updates[k] >= LAST_USED_DEBOUNCE_SECONDS

\* A write is scheduled only by a resolution from the database, and two
\* schedulings for one credential are at least 60 s apart.
C28_SchedulingsApart ==
    [][\A k \in CacheKeys :
         /\ C28_Scheduled(k) => C28_ResolvedFromDatabase(k)
         /\ (k \in DOMAIN _last_used_updates /\ C28_Scheduled(k))
            => now - _last_used_updates[k] >= LAST_USED_DEBOUNCE_SECONDS
         /\ (k \in DOMAIN _last_used_updates' /\ ~C28_Scheduled(k))
            => (/\ k \in DOMAIN _last_used_updates
                /\ _last_used_updates'[k] = _last_used_updates[k])]_vars

\* C28: a worker schedules a last_used_at write for a credential exactly
\* when it resolves the credential from the database and no write for it was
\* scheduled in the previous 60 s, and any two last_used_at writes for one
\* credential are at least 60 s apart.
C28_LastUsedDebounced ==
    [][\A k \in CacheKeys :
         /\ C28_Scheduled(k)
            <=> (C28_ResolvedFromDatabase(k) /\ C28_NoneScheduledLately(k))
         /\ (/\ api_keys[k].last_used_at # Null
             /\ api_keys'[k].last_used_at # api_keys[k].last_used_at)
            => api_keys'[k].last_used_at - api_keys[k].last_used_at
                  >= LAST_USED_DEBOUNCE_SECONDS]_vars

\* The last token fails validation: it is malformed, badly signed, expired,
\* of another issuer, of another audience than the configured one, without
\* "sub", of a kid the provider does not have, or the provider could not be
\* reached for a key that was not cached.
C29_Fails ==
    \/ jwt_out.token.defect \in {"malformed", "signature", "expired", "issuer"}
    \/ jwt_out.token.defect = "audience" /\ jwt_out.audience
    \/ ~jwt_out.token.sub
    \/ jwt_out.token.kid \notin validator.idp
    \/ jwt_out.fault = "error"
    \/ jwt_out.fault = "unreachable" /\ ~jwt_out.cached

\* C29: validate never raises: for every token and every failure (bad
\* signature, expired token, wrong issuer or audience, missing claim, unknown
\* kid, unreachable identity provider) it returns None and the request is
\* answered 401 invalid_token.
C29_ValidateNeverRaises ==
    jwt_out.asked =>
        /\ jwt_out.raised = ""
        /\ C29_Fails => /\ jwt_out.returned = NoIdentity
                        /\ jwt_out.status = 401
                        /\ jwt_out.error = "invalid_token"

\* A token with a good signature and no "sub": the KeyError was caught and
\* the request answered 401.
C29_Witness_MissingSubRefused ==
    /\ jwt_out.asked
    /\ jwt_out.token.defect = "none"
    /\ ~jwt_out.token.sub
    /\ jwt_out.token.kid \in validator.jwk_set
    /\ jwt_out.fault = "none"
    /\ jwt_out.status = 401

\* C30: every accepted JWT gives a principal whose tenant is the org claim,
\* whose role is the role claim when that is reader, writer or admin and
\* reader otherwise (also when the claim is absent), and without a project;
\* a validated JWT without an org claim is refused with 403
\* missing_org_claim.
C30_JwtPrincipal ==
    jwt_out.asked =>
        /\ jwt_out.ok =>
              /\ jwt_out.ctx.org_id = jwt_out.token.org
              /\ jwt_out.ctx.role = IF jwt_out.token.role \in Roles
                                    THEN jwt_out.token.role ELSE "reader"
              /\ jwt_out.ctx.project = NoProject
        /\ (jwt_out.returned.valid /\ jwt_out.token.org = Null) =>
              /\ ~jwt_out.ok
              /\ jwt_out.status = 403
              /\ jwt_out.error = "missing_org_claim"

\* A JWT of tenant 2 without a role claim was accepted as a reader.
C30_Witness_NoRoleClaimIsReader ==
    /\ jwt_out.asked
    /\ jwt_out.ok
    /\ jwt_out.token.role = JwtNoClaim
    /\ jwt_out.token.org = 2
    /\ jwt_out.ctx.role = "reader"

\* C31: among the entries of a search response with equal score the one with
\* the later updated_at comes first, and among those with equal updated_at
\* the one with the smaller id; and a candidate that was left out neither
\* scores like a returned entry while being later updated, nor scores like it
\* with the same updated_at and a smaller id (so the entries are determined
\* when limit cuts through a group of equal scores).
C31_TiesBrokenByUpdatedAtThenId ==
    search_req # NoSearch =>
      LET body == search_req
          cands == SearchCandidates(lessons, search_req.auth, body, now)
          sc(i) == Score(lessons[i], body.embedding, now)
          kept == {i \in cands : sc(i) >= body.min_confidence}
          ids == [k \in DOMAIN search_resp |-> search_resp[k].id]
          n == Len(search_resp)
          Before(i, j) ==
              \/ sc(i) > sc(j)
              \/ /\ sc(i) = sc(j)
                 /\ \/ lessons[i].updated_at > lessons[j].updated_at
                    \/ /\ lessons[i].updated_at = lessons[j].updated_at
                       /\ i < j
      IN  /\ \A a, b \in 1..n : a < b => Before(ids[a], ids[b])
          /\ \A c \in kept : (\A a \in 1..n : ids[a] # c) =>
                \A a \in 1..n : Before(ids[a], c)

\* C32: the response to a request that the rate limiter admitted carries the
\* headers X-RateLimit-Limit and X-RateLimit-Remaining, which report the
\* limit and the remaining quota of the key.
C32_RateLimitHeaders ==
    (http_req.stage = "done" /\ rate_out.key = "Bearer" /\ rate_out.allowed) =>
        {"X-RateLimit-Limit", "X-RateLimit-Remaining"} \subseteq http_resp.headers

\* The attempts of the call that were followed by a sleep and another
\* attempt each ended in a 500, 502, 503 or 504 response or in a connection
\* or timeout error.
C33_RetriedOnlyWhenRetryable ==
    \A i \in DOMAIN retry.slept :
        LET outcome == retry.outcomes[i] IN
        \/ outcome.exc = "" /\ outcome.status \in {500, 502, 503, 504}
        \/ outcome.exc \in {"ConnectError", "TimeoutException"}

\* A call makes at most 4 attempts, sleeps 0.5 s, 1 s and 2 s between them,
\* is over after the fourth, and gives None (save) or the empty list
\* (recall) when _request_with_retry raised.
C33_AtMostFourAttempts ==
    /\ Len(retry.outcomes) <= 4
    /\ Len(retry.slept) <= 3
    /\ retry.slept = SubSeq(<<1, 2, 4>>, 1, Len(retry.slept))
    /\ Len(retry.slept) \in {Len(retry.outcomes), Len(retry.outcomes) - 1}
    /\ Len(retry.outcomes) = 4 => retry.state = "done"
    /\ C33_RetriedOnlyWhenRetryable
    /\ (retry.state = "done" /\ retry.raised # "") =>
          retry.result = (IF retry.op = "save" THEN "None" ELSE "[]")

\* C33: one call of _request_with_retry makes at most 4 HTTP attempts (the
\* first and one after each backoff of 0.5 s, 1 s and 2 s) and then
\* terminates; it retries only after a 500, 502, 503 or 504 response or a
\* connection or timeout error, never after a 4xx response; when the
\* attempts are exhausted save returns None and recall returns an empty
\* list.
C33_RetryBoundedAndGraceful ==
    /\ []C33_AtMostFourAttempts
    /\ (retry.state \in {"request", "sleep"}) ~> (retry.state = "done")

\* A save met 503 four times, slept 0.5 s, 1 s and 2 s, and returned None.
C33_Witness_ExhaustedSave ==
    /\ retry.op = "save"
    /\ retry.state = "done"
    /\ Len(retry.outcomes) = 4
    /\ \A i \in 1..4 : retry.outcomes[i].status = 503
    /\ retry.slept = <<1, 2, 4>>
    /\ retry.raised = "HTTPStatusError"
    /\ retry.result = "None"

\* No payload is handed to _do_save twice.
C34_NoneSentTwice ==
    \A i, j \in DOMAIN batching.sent :
        batching.sent[i] = batching.sent[j] => i = j

\* C34: after close has returned every payload that save had accepted by
\* then has been handed to a save request exactly once, in every
\* interleaving of save, the flusher and close.
C34_EveryPayloadSentOnce ==
    /\ C34_NoneSentTwice
    /\ batching.closed =>
          \A p \in 1..batching.at_close : \E i \in DOMAIN batching.sent :
              batching.sent[i] = p

\* C35: once DELETE /v1/keys/{id} for key K has answered 204, the credential
\* cache holds no unrevoked copy of K's row and no request that starts
\* afterwards is authenticated with K, also when a resolution of K that read
\* the row before the revocation committed stores it after the revocation
\* removed the entry.
C35_NoStaleCopyAfter204 ==
    /\ \A k \in returned204 :
          k \in DOMAIN _key_cache => _key_cache[k].row.revoked_at # Null
    /\ resp.after204 => resp.status = 401

\* The items of an import that the statement inserts or updates: those whose
\* id is free or belongs to a lesson of the caller's tenant.
C36_Written(tbl, call) ==
    {i \in DOMAIN call.items :
        \/ call.items[i].id \notin DOMAIN tbl
        \/ tbl[call.items[i].id].org_id = call.auth.org_id}

\* C36: the imported count of POST /v1/lessons/import is the number of
\* lesson rows the request inserted or updated; an item refused because its
\* id belongs to a lesson of another tenant is not counted.
C36_ImportedCountsWrittenRows ==
    [][\A call \in importing \ importing' :
          out'.status = 200 =>
             out'.count = Cardinality(C36_Written(lessons, call))]_vars

\* The callers whose call of op on lesson id has returned.
C37_Returned(op, id) ==
    {c \in DOMAIN voters :
        voters[c].pc = "done" /\ voters[c].op = op /\ voters[c].id = id}

\* C37: when the calls of Lore.upvote and Lore.downvote on a lesson have
\* returned, its upvotes are its starting value (0) plus the number of
\* upvote calls and its downvotes the starting value plus the number of
\* downvote calls, in every interleaving of the callers' requests.
C37_EveryVoteCounted ==
    \A id \in DOMAIN lessons :
        (\A c \in DOMAIN voters : voters[c].id = id => voters[c].pc # "read") =>
            /\ lessons[id].upvotes = Cardinality(C37_Returned("upvote", id))
            /\ lessons[id].downvotes = Cardinality(C37_Returned("downvote", id))

\* C38: a PUT /v1/sharing/agents/{agent_id} for an agent that already has a
\* config and whose body omits enabled or categories leaves the stored value
\* of each omitted field unchanged.
C38_OmittedFieldsKept ==
    (agent_put.asked /\ agent_put.had) =>
        LET row == agent_sharing_config[<<agent_put.org_id, agent_put.agent_id>>]
        IN  /\ agent_put.body.enabled = "none" =>
                  row.enabled = agent_put.before.enabled
            /\ agent_put.body.categories = "none" =>
                  row.categories = agent_put.before.categories

\* C39: the limiter's state stays bounded: every key the limiter stores has a
\* request admitted inside the current window (a key with none holds no
\* state), so keys that never return do not pile up.
C39_IdleKeyHoldsNoState ==
    LET window_start == now - _rate_limiter.window_seconds * TicksPerSecond IN
    \A key \in DOMAIN _rate_limiter._requests :
        \E i \in 1..Len(_rate_limiter._requests[key]) :
            _rate_limiter._requests[key][i] >= window_start

====
